---- MODULE Spec2Model ----
(***************************************************************************)
(* Model of the HTTP surface of the NeuralArchSearch backend: the chat     *)
(* handlers (api/chat.ts, server/routes/chat.ts, api/shaurya-ai-enhanced), *)
(* the discovery handler (api/index.ts), /api/nas-ai, /api/optimization,   *)
(* /api/external-ai and the debug-logger edge function.                    *)
(*                                                                         *)
(* A state holds the request being served (req), the response the handler *)
(* produced for it (res), whether that response is still on its way to the *)
(* client (pc) and a history variable (sessions) recording what earlier    *)
(* requests did to each search id.  Every handler action is one whole      *)
(* handler invocation.  Text is a sequence of one-character strings, so    *)
(* String.includes and RegExp.test are computed on characters.  Fractions  *)
(* are scaled integers: accuracies in 1e-8 units inside evaluateArchitec-  *)
(* ture and in 1e-3 units in the response (Math.round(x * 1000) / 1000),   *)
(* latencies in 1e-4 ms.                                                   *)
(***************************************************************************)
EXTENDS Integers, Sequences, FiniteSets, TLC

VARIABLES pc, req, res, sessions

\* client/lib/supabase.ts: the client object the module exports, the four
\* tables the facade reads and writes, the facade call being made with its
\* result, and the count queries of a getGlobalStats call in flight
VARIABLES supabase, search_experiments, neural_architectures, search_progress,
          ai_conversations, call, outcome, queries

\* the configurable chat widget: its React state and the position of the
\* handleSendMessage callback
VARIABLES chatMessages, inputValue, isTyping, aiConfig, send

\* which of the two chat widgets is mounted: the configurable one of
\* unnamed/part_004 or the simple one of client/components/AIChatWidget.tsx
VARIABLES widget

\* client/lib/highlight.ts: the module variable highlightInstance, the number
\* of times H.init has run, and the position of every tracking call
VARIABLES highlightInstance, inits, tracking

\* unnamed/part_000: the user_profiles table and the user_id, top1_accuracy
\* columns of search_experiments and neural_architectures
VARIABLES user_profiles, owned_experiments, owned_architectures

\* client/components/DatabaseStatus.tsx: the testing flag and the position of
\* the testDatabaseOperations callback
VARIABLES testing, test

\* client/hooks/useNASPerformanceMonitoring.ts: the operationTimers map and the
\* position of every measureOperation call
VARIABLES operationTimers, measured

httpVars == <<pc, req, res, sessions>>

telemetryVars == <<highlightInstance, inits, tracking>>

profileVars == <<user_profiles, owned_experiments, owned_architectures>>

statusVars == <<testing, test>>

timerVars == <<operationTimers, measured>>

lateVars == <<widget, telemetryVars, profileVars, statusVars, timerVars>>

facadeVars ==
  <<supabase, search_experiments, neural_architectures, search_progress,
    ai_conversations, call, outcome, queries>>

widgetVars == <<chatMessages, inputValue, isTyping, aiConfig, send>>

vars == <<httpVars, facadeVars, widgetVars, lateVars>>

(***************************************************************************)
(* Bounds of the model.                                                    *)
(***************************************************************************)
MaxMessages == 2
MaxLayers == 2
MaxParallel == 2
MaxSeeds == 3
MaxExperiments == 2
MaxLogRows == 2
MaxSends == 2
MaxCallers == 3
MaxCalls == 2
MaxOwnedRows == 2
MaxMeasured == 2
MaxClock == 2

Absent == "<absent>"

Min(a, b) == IF a <= b THEN a ELSE b

Max(a, b) == IF a >= b THEN a ELSE b

SeqsUpTo(S, n) == UNION {[1..k -> S] : k \in 0..n}

(***************************************************************************)
(* Text.                                                                   *)
(***************************************************************************)
Upper == <<"H", "M", "O", "A", "N", "S">>

LowerOf == <<"h", "m", "o", "a", "n", "s">>

toLowerCaseChar(c) ==
  IF \E i \in 1..Len(Upper) : Upper[i] = c
    THEN LowerOf[CHOOSE i \in 1..Len(Upper) : Upper[i] = c]
    ELSE c

toLowerCase(s) == [i \in 1..Len(s) |-> toLowerCaseChar(s[i])]

includes(s, p) ==
  \E i \in 0..(Len(s) - Len(p)) : \A j \in 1..Len(p) : s[i + j] = p[j]

TxtHello == <<"H", "e", "l", "l", "o">>

TxtHelpMeOptimize == <<"h", "e", "l", "p", " ", "m", "e", " ", "o", "p", "t", "i", "m", "i", "z", "e">>

TxtModel == <<"M", "o", "d", "e", "l">>

TxtNas == <<"N", "A", "S">>

TxtGpu == <<"g", "p", "u">>

TxtOk == <<"o", "k">>

TxtWhichDataset == <<"w", "h", "i", "c", "h", " ", "d", "a", "t", "a", "s", "e", "t">>

TxtMobile == <<"m", "o", "b", "i", "l", "e">>

TxtTestError == <<"t", "e", "s", "t", " ", "e", "r", "r", "o", "r">>

TxtLayer == <<"l", "a", "y", "e", "r">>

TxtFix == <<"f", "i", "x">>

TxtData == <<"d", "a", "t", "a">>

Texts == {TxtHello, TxtHelpMeOptimize, TxtModel, TxtNas, TxtGpu, TxtOk, <<>>}

\* further prompts, sent as the only message of a conversation
Prompts == {TxtWhichDataset, TxtMobile, TxtTestError, TxtLayer, TxtFix, TxtData}

(***************************************************************************)
(* JavaScript values of the request bodies.  A value is a record with a    *)
(* tag t; Truthy is JavaScript's ToBoolean on the tags used.               *)
(***************************************************************************)
Truthy(t) == t \notin {"undefined", "null", "zero", "emptyString", "false"}

isArray(t) == t = "array"

Roles == {"user", "assistant", "system"}

\* one element of a messages array: null, or an object with a role and a
\* content (a string, or undefined when the key is missing)
NullMessage == [t |-> "null", role |-> Absent, content |-> "undefined", s |-> <<>>]

MessageValues ==
  {NullMessage}
    \cup [t : {"object"}, role : Roles \cup {Absent}, content : {"string"}, s : Texts]
    \cup [t : {"object"}, role : {"user"}, content : {"undefined"}, s : {<<>>}]

\* the `messages` key of a chat body
MessagesValues ==
  [t : {"undefined", "null", "emptyString", "string", "object"}, items : {<<>>}]
    \cup [t : {"array"}, items : SeqsUpTo(MessageValues, MaxMessages)]

\* a conversation of one user message
TxtArchitecture == <<"a", "r", "c", "h", "i", "t", "e", "c", "t", "u", "r", "e">>

TxtSearch == <<"s", "e", "a", "r", "c", "h">>

\* a history of one user message that names a topic
TopicMessages ==
  {[t |-> "array",
    items |-> <<[t |-> "object", role |-> "user", content |-> "string", s |-> p]>>] :
     p \in {TxtArchitecture, TxtSearch}}

PromptMessages ==
  {[t |-> "array",
    items |-> <<[t |-> "object", role |-> "user", content |-> "string", s |-> p]>>] :
     p \in Prompts}

(***************************************************************************)
(* Responses.  A response is the status code, the three CORS headers and   *)
(* the JSON body; every body has the same keys, a key the handler did not  *)
(* write is Absent (strings), "absent" (booleans) or has its flag FALSE.   *)
(***************************************************************************)
NoCors == [origin |-> Absent, methods |-> Absent, headers |-> Absent]

NoBody ==
  [sent |-> "end", error |-> Absent, success |-> "absent",
   content |-> Absent, text |-> Absent, choice |-> Absent,
   insights |-> <<>>, doc |-> FALSE,
   algorithm |-> Absent, searchId |-> Absent, status |-> Absent,
   hasCandidates |-> FALSE, candidates |-> <<>>,
   hasMetrics |-> FALSE, parameterCount |-> 0, estimatedAccuracy |-> 0,
   estimatedLatency |-> 0, service |-> Absent, task |-> Absent,
   score |-> [t |-> "undefined", n |-> 0],
   efficiencyScore |-> [t |-> "undefined", n |-> 0]]

Json(fields) == [k \in DOMAIN NoBody |-> IF k \in DOMAIN fields THEN fields[k] ELSE NoBody[k]]

Response(handlerName, statusCode, cors, body) ==
  [handler |-> handlerName, status |-> statusCode, cors |-> cors, body |-> body]

(***************************************************************************)
(* api/chat.ts and server/routes/chat.ts                                   *)
(***************************************************************************)
GreetingReply == "Hi there! I'm Shaurya, your AI assistant for Neural Architecture Search."

ArchitectureReply == "As Shaurya, I can help you understand neural architectures!"

SearchReply == "For Neural Architecture Search, I recommend considering these key factors:"

PerformanceReply == "Performance optimization in NAS involves multiple dimensions:"

HelpReply == "I'm Shaurya, and I'm here to help with all aspects of Neural Architecture Search!"

DeployReply == "Great! I'm Shaurya, and I can see you're deploying to Vercel!"

ContextReply == "That's an interesting question! As Shaurya, I'm specialized in neural architecture search"

DefaultReply == "Hello! I'm Shaurya, your AI assistant built by Shaurya Upadhyay"

generateShauryaResponse(userInput, messageHistory) ==
  LET input == toLowerCase(userInput) IN
  IF \/ includes(input, <<"h", "e", "l", "l", "o">>)
     \/ includes(input, <<"h", "i">>)
     \/ includes(input, <<"h", "e", "y">>)
    THEN GreetingReply
  ELSE IF \/ includes(input, <<"a", "r", "c", "h", "i", "t", "e", "c", "t", "u", "r", "e">>)
          \/ includes(input, <<"m", "o", "d", "e", "l">>)
          \/ includes(input, <<"n", "e", "t", "w", "o", "r", "k">>)
    THEN ArchitectureReply
  ELSE IF \/ includes(input, <<"s", "e", "a", "r", "c", "h">>)
          \/ includes(input, <<"c", "o", "n", "f", "i", "g", "u", "r", "a", "t", "i", "o", "n">>)
          \/ includes(input, <<"n", "a", "s">>)
    THEN SearchReply
  ELSE IF \/ includes(input, <<"p", "e", "r", "f", "o", "r", "m", "a", "n", "c", "e">>)
          \/ includes(input, <<"a", "c", "c", "u", "r", "a", "c", "y">>)
          \/ includes(input, <<"o", "p", "t", "i", "m", "i", "z", "a", "t", "i", "o", "n">>)
    THEN PerformanceReply
  ELSE IF \/ includes(input, <<"h", "e", "l", "p">>)
          \/ includes(input, <<"h", "o", "w">>)
          \/ includes(input, <<"i", "m", "p", "l", "e", "m", "e", "n", "t">>)
    THEN HelpReply
  ELSE IF \/ includes(input, <<"v", "e", "r", "c", "e", "l">>)
          \/ includes(input, <<"d", "e", "p", "l", "o", "y">>)
          \/ includes(input, <<"p", "r", "o", "d", "u", "c", "t", "i", "o", "n">>)
    THEN DeployReply
  ELSE IF Len(messageHistory) > 1
    THEN ContextReply
  ELSE DefaultReply

(***************************************************************************)
(* The handler bodies of the two /api/chat implementations.                *)
(***************************************************************************)
ChatCors ==
  [origin |-> "*", methods |-> "GET, POST, PUT, DELETE, OPTIONS",
   headers |-> "Content-Type, Authorization"]

MethodNotAllowed == Json([sent |-> "json", error |-> "Method not allowed"])


\* handleChat without the check of the last message's role
handleChat_noRoleCheck(messages) ==
  LET name == "express-chat"
      n == Len(messages.items)
      lastMessage == IF n = 0 THEN NullMessage ELSE messages.items[n]
  IN
  IF ~Truthy(messages.t) \/ ~isArray(messages.t)
    THEN Response(name, 400, NoCors,
           Json([sent |-> "json", error |-> "Invalid request: messages array is required"]))
  ELSE IF n = 0 \/ ~Truthy(lastMessage.t)
    THEN Response(name, 400, NoCors,
           Json([sent |-> "json", error |-> "Invalid request: last message must be from user"]))
  ELSE IF lastMessage.content # "string"
    THEN Response(name, 500, NoCors,
           Json([sent |-> "json", error |-> "Internal server error"]))
  ELSE LET aiResponse == generateShauryaResponse(lastMessage.s, messages.items) IN
       Response(name, 200, NoCors,
         Json([sent |-> "json", content |-> aiResponse, text |-> aiResponse,
               choice |-> aiResponse]))

\* server/routes/chat.ts: the Express route, mounted with app.post; the
\* handler itself writes no header
handleChat(messages) ==
  LET name == "express-chat"
      n == Len(messages.items)
      lastMessage == IF n = 0 THEN NullMessage ELSE messages.items[n]
  IN
  IF ~Truthy(messages.t) \/ ~isArray(messages.t)
    THEN Response(name, 400, NoCors,
           Json([sent |-> "json", error |-> "Invalid request: messages array is required"]))
  ELSE IF n = 0 \/ ~Truthy(lastMessage.t) \/ lastMessage.role # "user"
    THEN Response(name, 400, NoCors,
           Json([sent |-> "json", error |-> "Invalid request: last message must be from user"]))
  ELSE IF lastMessage.content # "string"
    \* userInput.toLowerCase() throws a TypeError, caught by the handler
    THEN Response(name, 500, NoCors,
           Json([sent |-> "json", error |-> "Internal server error"]))
  ELSE LET aiResponse == generateShauryaResponse(lastMessage.s, messages.items) IN
       Response(name, 200, NoCors,
         Json([sent |-> "json", content |-> aiResponse, text |-> aiResponse,
               choice |-> aiResponse]))

\* api/chat.ts: the Vercel function
ChatHandler(method, messages) ==
  LET name == "chat"
      n == Len(messages.items)
      lastMessage == IF n = 0 THEN NullMessage ELSE messages.items[n]
  IN
  IF method = "OPTIONS" THEN Response(name, 200, ChatCors, NoBody)
  ELSE IF method # "POST" THEN Response(name, 405, ChatCors, MethodNotAllowed)
  ELSE IF ~Truthy(messages.t) \/ ~isArray(messages.t)
    THEN Response(name, 400, ChatCors,
           Json([sent |-> "json", error |-> "Invalid request: messages array is required"]))
  ELSE IF n = 0 \/ ~Truthy(lastMessage.t) \/ lastMessage.role # "user"
    THEN Response(name, 400, ChatCors,
           Json([sent |-> "json", error |-> "Invalid request: last message must be from user"]))
  ELSE IF lastMessage.content # "string"
    THEN Response(name, 500, ChatCors,
           Json([sent |-> "json", error |-> "Internal server error"]))
  ELSE LET aiResponse == generateShauryaResponse(lastMessage.s, messages.items) IN
       Response(name, 200, ChatCors,
         Json([sent |-> "json", content |-> aiResponse, text |-> aiResponse,
               choice |-> aiResponse]))

(***************************************************************************)
(* api/shaurya-ai-enhanced.ts                                              *)
(***************************************************************************)

architectureOptimization(input) ==
  \/ includes(input, <<"o", "p", "t", "i", "m">>)
  \/ includes(input, <<"i", "m", "p", "r", "o", "v">>)
  \/ includes(input, <<"e", "f", "f", "i", "c", "i", "e", "n">>)
  \/ includes(input, <<"s", "p", "e", "e", "d">>)
  \/ includes(input, <<"f", "a", "s", "t">>)
  \/ includes(input, <<"b", "e", "t", "t", "e", "r">>)
  \/ includes(input, <<"e", "n", "h", "a", "n", "c", "e">>)

modelComparison(input) ==
  \/ includes(input, <<"c", "o", "m", "p", "a", "r">>)
  \/ includes(input, <<"v", "s">>)
  \/ includes(input, <<"v", "e", "r", "s", "u", "s">>)
  \/ includes(input, <<"d", "i", "f", "f", "e", "r">>)
  \/ includes(input, <<"w", "h", "i", "c", "h">>)
  \/ includes(input, <<"b", "e", "s", "t">>)
  \/ includes(input, <<"b", "e", "t", "t", "e", "r">>)

performanceAnalysis(input) ==
  \/ includes(input, <<"a", "c", "c", "u", "r", "a">>)
  \/ includes(input, <<"l", "o", "s", "s">>)
  \/ includes(input, <<"m", "e", "t", "r", "i", "c">>)
  \/ includes(input, <<"p", "e", "r", "f", "o", "r", "m">>)
  \/ includes(input, <<"e", "v", "a", "l", "u", "a", "t">>)
  \/ includes(input, <<"t", "e", "s", "t">>)
  \/ includes(input, <<"v", "a", "l", "i", "d">>)

hardwareConstraints(input) ==
  \/ includes(input, <<"m", "o", "b", "i", "l", "e">>)
  \/ includes(input, <<"e", "d", "g", "e">>)
  \/ includes(input, <<"g", "p", "u">>)
  \/ includes(input, <<"c", "p", "u">>)
  \/ includes(input, <<"m", "e", "m", "o", "r">>)
  \/ includes(input, <<"l", "a", "t", "e", "n", "c">>)
  \/ includes(input, <<"p", "o", "w", "e", "r">>)
  \/ includes(input, <<"d", "e", "p", "l", "o", "y">>)

searchStrategy(input) ==
  \/ includes(input, <<"s", "e", "a", "r", "c", "h">>)
  \/ includes(input, <<"n", "a", "s">>)
  \/ includes(input, <<"a", "u", "t", "o", "m", "l">>)
  \/ includes(input, <<"e", "v", "o", "l", "u", "t", "i", "o", "n">>)
  \/ includes(input, <<"r", "e", "i", "n", "f", "o", "r", "c">>)
  \/ includes(input, <<"b", "a", "y", "e", "s", "i", "a", "n">>)
  \/ includes(input, <<"g", "r", "a", "d", "i", "e", "n", "t">>)

architectureDesign(input) ==
  \/ includes(input, <<"l", "a", "y", "e", "r">>)
  \/ includes(input, <<"b", "l", "o", "c", "k">>)
  \/ includes(input, <<"r", "e", "s", "n", "e", "t">>)
  \/ includes(input, <<"e", "f", "f", "i", "c", "i", "e", "n", "t">>)
  \/ includes(input, <<"m", "o", "b", "i", "l", "e">>)
  \/ includes(input, <<"c", "o", "n", "v", "o", "l">>)
  \/ includes(input, <<"d", "e", "n", "s", "e">>)
  \/ includes(input, <<"t", "r", "a", "n", "s", "f", "o", "r", "m">>)

troubleshooting(input) ==
  \/ includes(input, <<"e", "r", "r", "o", "r">>)
  \/ includes(input, <<"f", "a", "i", "l">>)
  \/ includes(input, <<"p", "r", "o", "b", "l", "e", "m">>)
  \/ includes(input, <<"i", "s", "s", "u", "e">>)
  \/ includes(input, <<"d", "e", "b", "u", "g">>)
  \/ includes(input, <<"f", "i", "x">>)
  \/ includes(input, <<"h", "e", "l", "p">>)
  \/ includes(input, <<"s", "t", "u", "c", "k">>)

datasetQuestions(input) ==
  \/ includes(input, <<"d", "a", "t", "a", "s", "e", "t">>)
  \/ includes(input, <<"d", "a", "t", "a">>)
  \/ includes(input, <<"i", "m", "a", "g", "e", "n", "e", "t">>)
  \/ includes(input, <<"c", "i", "f", "a", "r">>)
  \/ includes(input, <<"c", "u", "s", "t", "o", "m">>)
  \/ includes(input, <<"t", "r", "a", "i", "n">>)
  \/ includes(input, <<"a", "u", "g", "m", "e", "n", "t">>)

\* responseTypeOf testing the dataset pattern before the comparison pattern
responseTypeOf_datasetFirst(input) ==
  IF architectureOptimization(input) THEN "optimization"
  ELSE IF datasetQuestions(input) THEN "dataset"
  ELSE IF modelComparison(input) THEN "comparison"
  ELSE IF performanceAnalysis(input) THEN "performance"
  ELSE IF hardwareConstraints(input) THEN "hardware"
  ELSE IF searchStrategy(input) THEN "search"
  ELSE IF architectureDesign(input) THEN "design"
  ELSE IF troubleshooting(input) THEN "troubleshooting"
  ELSE "general"

responseTypeOf(input) ==
  IF architectureOptimization(input) THEN "optimization"
  ELSE IF modelComparison(input) THEN "comparison"
  ELSE IF performanceAnalysis(input) THEN "performance"
  ELSE IF hardwareConstraints(input) THEN "hardware"
  ELSE IF searchStrategy(input) THEN "search"
  ELSE IF architectureDesign(input) THEN "design"
  ELSE IF troubleshooting(input) THEN "troubleshooting"
  ELSE IF datasetQuestions(input) THEN "dataset"
  ELSE "general"

generateGeneralResponse(input, messageHistory) ==
  IF \/ includes(input, <<"h", "e", "l", "l", "o">>)
     \/ includes(input, <<"h", "i">>)
     \/ includes(input, <<"h", "e", "y">>)
    THEN "**Hello! I'm Shaurya, your advanced AI assistant for Neural Architecture Search**"
  ELSE IF Len(messageHistory) > 1
    THEN "That's a fascinating question! As your enhanced Shaurya AI"
  ELSE "**Welcome to Enhanced Shaurya AI - Neural Architecture Search Expert**"

\* the text and the first insight's title of each response type
responseTextOf(responseType, input, messageHistory) ==
  CASE responseType = "optimization" -> "**Architecture Optimization with Shaurya AI**"
    [] responseType = "comparison" -> "**Architecture Comparison Analysis - Shaurya AI**"
    [] responseType = "performance" -> "**Performance Analysis Suite - Shaurya AI**"
    [] responseType = "hardware" -> "**Hardware-Aware Optimization - Shaurya AI**"
    [] responseType = "search" -> "**Neural Architecture Search Strategies - Shaurya AI**"
    [] responseType = "design" -> "**Neural Architecture Design Principles - Shaurya AI**"
    [] responseType = "troubleshooting" -> "**NAS Troubleshooting Guide - Shaurya AI**"
    [] responseType = "dataset" -> "**Dataset Strategy for NAS - Shaurya AI**"
    [] OTHER -> generateGeneralResponse(input, messageHistory)

insightsOf(responseType) ==
  CASE responseType = "optimization" -> <<"Architecture Optimization Opportunities">>
    [] responseType = "comparison" -> <<"Multi-Objective Analysis">>
    [] responseType = "performance" -> <<"Performance Metrics Analysis">>
    [] responseType = "hardware" -> <<"Hardware-Aware Optimization">>
    [] responseType = "search" -> <<"Search Strategy Selection">>
    [] responseType = "design" -> <<"Architecture Design Principles">>
    [] responseType = "troubleshooting" -> <<"Common Issues Detected">>
    [] responseType = "dataset" -> <<"Dataset Considerations">>
    [] OTHER -> <<>>


generateEnhancedShauryaResponse(userInput, messageHistory, currentExperiment) ==
  LET input == toLowerCase(userInput)
      responseType == responseTypeOf(input)
  IN [text |-> responseTextOf(responseType, input, messageHistory),
      insights |-> insightsOf(responseType) \o
                   (IF currentExperiment THEN <<"Current Experiment Status">> ELSE <<>>)]

\* EnhancedHandler answering choices[0].message.content from the untyped
\* general text instead of aiResponse.text
EnhancedHandler_otherChoice(method, messages, currentExperiment) ==
  LET name == "shaurya-ai-enhanced"
      n == Len(messages.items)
      lastMessage == IF n = 0 THEN NullMessage ELSE messages.items[n]
  IN
  IF method = "OPTIONS" THEN Response(name, 200, ChatCors, NoBody)
  ELSE IF method # "POST" THEN Response(name, 405, ChatCors, MethodNotAllowed)
  ELSE IF ~Truthy(messages.t) \/ ~isArray(messages.t)
    THEN Response(name, 400, ChatCors,
           Json([sent |-> "json", error |-> "Invalid request: messages array is required"]))
  ELSE IF n = 0 \/ ~Truthy(lastMessage.t) \/ lastMessage.role # "user"
    THEN Response(name, 400, ChatCors,
           Json([sent |-> "json", error |-> "Invalid request: last message must be from user"]))
  ELSE IF lastMessage.content # "string"
    THEN Response(name, 500, ChatCors,
           Json([sent |-> "json", error |-> "Internal server error"]))
  ELSE LET input == toLowerCase(lastMessage.s)
           text == responseTextOf(responseTypeOf(input), input, messages.items)
       IN Response(name, 200, ChatCors,
            Json([sent |-> "json", content |-> text, text |-> text,
                  choice |-> generateGeneralResponse(input, messages.items),
                  insights |-> insightsOf(responseTypeOf(input))]))

EnhancedHandler(method, messages, currentExperiment) ==
  LET name == "shaurya-ai-enhanced"
      n == Len(messages.items)
      lastMessage == IF n = 0 THEN NullMessage ELSE messages.items[n]
  IN
  IF method = "OPTIONS" THEN Response(name, 200, ChatCors, NoBody)
  ELSE IF method # "POST" THEN Response(name, 405, ChatCors, MethodNotAllowed)
  ELSE IF ~Truthy(messages.t) \/ ~isArray(messages.t)
    THEN Response(name, 400, ChatCors,
           Json([sent |-> "json", error |-> "Invalid request: messages array is required"]))
  ELSE IF n = 0 \/ ~Truthy(lastMessage.t) \/ lastMessage.role # "user"
    THEN Response(name, 400, ChatCors,
           Json([sent |-> "json", error |-> "Invalid request: last message must be from user"]))
  ELSE IF lastMessage.content # "string"
    THEN Response(name, 500, ChatCors,
           Json([sent |-> "json", error |-> "Internal server error"]))
  ELSE LET aiResponse ==
             generateEnhancedShauryaResponse(lastMessage.s, messages.items, currentExperiment)
       IN Response(name, 200, ChatCors,
            Json([sent |-> "json", content |-> aiResponse.text, text |-> aiResponse.text,
                  choice |-> aiResponse.text, insights |-> aiResponse.insights]))

(***************************************************************************)
(* api/index.ts: the discovery document                                    *)
(***************************************************************************)
IndexHandler(method) ==
  IF method = "OPTIONS" THEN Response("index", 200, ChatCors, NoBody)
  ELSE Response("index", 200, ChatCors, Json([sent |-> "json", doc |-> TRUE]))

(***************************************************************************)
(* /api/nas-ai                                                             *)
(***************************************************************************)
\* a layer descriptor; a number 0 stands for a key that is 0 or missing
\* (the code reads every number as `layer.x || default`)
Layer(type, filters, kernel_size, units, input_size, features) ==
  [type |-> type, filters |-> filters, kernel_size |-> kernel_size,
   units |-> units, input_size |-> input_size, features |-> features]

LayerValues ==
  {Layer("conv2d", f, k, 0, 0, 0) : f \in {0, 64, 2000, -8}, k \in {0, 7}}
    \cup {Layer("dense", 0, 0, u, i, 0) : u \in {0, 4000}, i \in {0, 4000}}
    \cup {Layer("batch_norm", 0, 0, 0, 0, f) : f \in {0, 16}}
    \cup {Layer("dropout", 0, 0, 0, 0, 0), Layer("pooling", 0, 0, 0, 0, 0)}

\* the `architecture` key: undefined, or an object with or without `layers`
\* and with a `parameters` number (0: missing)
ArchitectureValues ==
  [t : {"undefined"}, hasLayers : {FALSE}, layers : {<<>>}, parameters : {0}]
    \cup [t : {"object"}, hasLayers : {FALSE}, layers : {<<>>}, parameters : {0, 5000000}]
    \cup [t : {"object"}, hasLayers : {TRUE}, layers : SeqsUpTo(LayerValues, MaxLayers),
          parameters : {0}]

DatasetValues == {"undefined", "cifar10", "cifar100", "imagenet", "custom"}

\* the `constraints` key (0: key missing)
ConstraintsValues ==
  [t : {"undefined"}, maxParams : {0}, targetLatency : {0}]
    \cup [t : {"object"}, maxParams : {0, 1000000}, targetLatency : {0, 20, 80}]

\* the `currentBest` key: undefined or an array of architectures with a score
SeedValues == [score : {50, 95}]

CurrentBestValues ==
  [t : {"undefined"}, items : {<<>>}]
    \cup [t : {"array"}, items : SeqsUpTo(SeedValues, MaxSeeds)]

Or(x, default) == IF x = 0 THEN default ELSE x

\* parameterCount after the first n layers
RECURSIVE parameterCount(_, _)
parameterCount(layers, n) ==
  IF n = 0 THEN 0
  ELSE LET layer == layers[n]
           inputChannels == IF n = 1 THEN 3 ELSE Or(layers[n - 1].filters, 32)
       IN parameterCount(layers, n - 1) +
          (CASE layer.type = "conv2d" ->
                  Or(layer.filters, 32) * inputChannels *
                    Or(layer.kernel_size, 3) * Or(layer.kernel_size, 3)
             [] layer.type = "dense" -> Or(layer.units, 128) * Or(layer.input_size, 1024)
             [] layer.type = "batch_norm" -> Or(layer.features, 32) * 2
             [] OTHER -> 0)

\* estimatedLatency after the first n layers, in 1e-4 ms
RECURSIVE estimatedLatency4(_, _)
estimatedLatency4(layers, n) ==
  IF n = 0 THEN 0
  ELSE LET layer == layers[n] IN
       estimatedLatency4(layers, n - 1) +
          (CASE layer.type = "conv2d" -> Or(layer.filters, 32) * 10
             [] layer.type = "dense" -> Or(layer.units, 128)
             [] layer.type = "batch_norm" -> 500
             [] layer.type = "dropout" -> 100
             [] OTHER -> 0)

\* baseAccuracy starting from the cifar10 value instead of 0.7
baseAccuracy_otherDefault(dataset) ==
  IF dataset = "cifar100" THEN 60000000
  ELSE IF dataset = "imagenet" THEN 70000000
  ELSE 85000000

\* baseAccuracy in 1e-8
baseAccuracy(dataset) ==
  IF dataset = "cifar10" THEN 85000000
  ELSE IF dataset = "cifar100" THEN 60000000
  ELSE 70000000

\* estimatedAccuracy without the clamp to 0.98
estimatedAccuracy8_noClamp(count, dataset) ==
  baseAccuracy(dataset) + 2 * Min(count, 10000000)

\* Math.min(baseAccuracy + Math.min(parameterCount / 1000000, 10) / 10 * 0.2, 0.98)
\* in 1e-8
estimatedAccuracy8(count, dataset) ==
  Min(baseAccuracy(dataset) + 2 * Min(count, 10000000), 98000000)

\* Math.round(x * 1000) / 1000 of a value in 1e-8, in 1e-3
round3(x8) == (x8 + 50000) \div 100000

\* Math.round(x * 100) / 100 of a value in 1e-4, in 1e-2
round2(x4) == (x4 + 50) \div 100

\* Math.round(efficiencyScore * 100) / 100 as JSON carries it, in 1e-2, where
\* efficiencyScore = (estimatedAccuracy * 100) / (parameterCount / 1000000 +
\* estimatedLatency); the accuracy is in 1e-8 and the divisor in 1e-6, the
\* quotient of a division by zero is Infinity, which JSON writes as null
roundedEfficiency(accuracy8, divisor6) ==
  LET d == IF divisor6 < 0 THEN -divisor6 ELSE divisor6
      \* the next decimal of r / d and what is left of r, for 0 <= r < d
      \* (long division, which keeps every intermediate value small)
      digit(r) ==
        Cardinality({k \in 1..9 : k * (d \div 10) + (k * (d % 10) + 9) \div 10 <= r})
      rest(r) == 10 * (r - digit(r) * (d \div 10)) - digit(r) * (d % 10)
      r0 == accuracy8 % d
      r1 == rest(r0)
      r2 == rest(r1)
      hundredths == 100 * (accuracy8 \div d) + 10 * digit(r0) + digit(r1)
  IN IF divisor6 = 0 THEN [t |-> "null", n |-> 0]
     ELSE IF divisor6 > 0
       THEN [t |-> "number", n |-> hundredths + (IF 2 * r2 >= d THEN 1 ELSE 0)]
     ELSE [t |-> "number", n |-> -(hundredths + (IF 2 * r2 > d THEN 1 ELSE 0))]

evaluateArchitecture(architecture, dataset) ==
  IF ~Truthy(architecture.t)
    THEN Json([sent |-> "json", success |-> "false",
               error |-> "Architecture specification required"])
  ELSE LET layers == architecture.layers
           count == parameterCount(layers, Len(layers))
           efficiency ==
             roundedEfficiency(estimatedAccuracy8(count, dataset),
                               count + 100 * estimatedLatency4(layers, Len(layers)))
       IN Json([sent |-> "json", success |-> "true", hasMetrics |-> TRUE,
                score |-> efficiency, efficiencyScore |-> efficiency,
                parameterCount |-> count,
                estimatedAccuracy |-> round3(estimatedAccuracy8(count, dataset)),
                estimatedLatency |-> round2(estimatedLatency4(layers, Len(layers)))])

\* "throws" when the function dereferences a missing architecture or a
\* missing layer list
optimizeArchitecture(architecture, constraints) ==
  LET reduce == constraints.maxParams # 0 /\ architecture.parameters > constraints.maxParams
      separable == constraints.targetLatency # 0 /\ constraints.targetLatency < 50
  IN
  IF ~Truthy(architecture.t) THEN "throws"
  ELSE IF (reduce \/ separable) /\ ~architecture.hasLayers THEN "throws"
  ELSE "success"

compareArchitectures(architectures) ==
  IF ~Truthy(architectures.t) \/ Len(architectures.items) < 2
    THEN Json([sent |-> "json", success |-> "false",
               error |-> "At least 2 architectures required for comparison"])
  ELSE Json([sent |-> "json", success |-> "true"])

OperationValues == {"undefined", "evaluate", "optimize", "suggest", "compare", "train"}

ServerError == Json([sent |-> "json", success |-> "false", error |-> "Internal server error"])

NasAiHandler(method, operation, architecture, dataset, constraints, currentBest) ==
  LET name == "nas-ai" IN
  IF method = "OPTIONS" THEN Response(name, 200, ChatCors, NoBody)
  ELSE IF method # "POST" THEN Response(name, 405, ChatCors, MethodNotAllowed)
  ELSE IF ~Truthy(operation)
    THEN Response(name, 400, ChatCors,
           Json([sent |-> "json", success |-> "false", error |-> "Operation is required"]))
  ELSE CASE operation = "evaluate" ->
              Response(name, 200, ChatCors, evaluateArchitecture(architecture, dataset))
         [] operation = "optimize" ->
              IF optimizeArchitecture(architecture, constraints) = "throws"
                THEN Response(name, 500, ChatCors, ServerError)
                ELSE Response(name, 200, ChatCors, Json([sent |-> "json", success |-> "true"]))
         [] operation = "suggest" ->
              Response(name, 200, ChatCors, Json([sent |-> "json", success |-> "true"]))
         [] operation = "compare" ->
              Response(name, 200, ChatCors, compareArchitectures(currentBest))
         [] OTHER ->
              Response(name, 400, ChatCors,
                Json([sent |-> "json", success |-> "false", error |-> "Invalid operation"]))

(***************************************************************************)
(* /api/optimization                                                       *)
(***************************************************************************)
\* a JavaScript number: NaN or an integer
Num(n) == [nan |-> FALSE, inf |-> FALSE, n |-> n]

NaN == [nan |-> TRUE, inf |-> FALSE, n |-> 0]

\* the number JSON.parse gives for a literal beyond the range of a double
\* (1e999)
Infinity == [nan |-> FALSE, inf |-> TRUE, n |-> 0]

\* x * k for a k > 0
Times(x, k) == IF x.nan THEN NaN ELSE IF x.inf THEN Infinity ELSE Num(x.n * k)

MathMin(x, k) == IF x.nan THEN NaN ELSE IF x.inf THEN Num(k) ELSE Num(Min(x.n, k))

\* Math.floor(x / 2)
FloorHalf(x) == IF x.nan THEN NaN ELSE IF x.inf THEN Infinity ELSE Num(x.n \div 2)

\* Array.prototype.slice(0, end)
slice(a, end) ==
  LET k == IF end.nan THEN 0
           ELSE IF end.inf THEN Len(a)
           ELSE IF end.n < 0 THEN Max(Len(a) + end.n, 0)
           ELSE Min(end.n, Len(a))
  IN SubSeq(a, 1, k)

\* Array.prototype.sort((a, b) => b.score - a.score): stable, descending
RECURSIVE sortByScore(_)
insert(sorted, x) ==
  LET k == Cardinality({i \in 1..Len(sorted) : sorted[i].score >= x.score}) IN
  SubSeq(sorted, 1, k) \o <<x>> \o SubSeq(sorted, k + 1, Len(sorted))

sortByScore(a) ==
  IF a = <<>> THEN <<>>
  ELSE insert(sortByScore(SubSeq(a, 1, Len(a) - 1)), a[Len(a)])

\* generateInitialPopulation(5, {}) of getOptimizationStatus
StatusCandidates == 5

\* the scores Math.random() * 0.3 + 0.6 can give, in 1e-2
RandomScores == {60, 89}

Member(seed, score) == [seed |-> seed, score |-> score]

\* seedsTaken without the cut at Math.floor(size / 2): every seed is taken
seedsTaken_all(size, seeds) ==
  IF Truthy(seeds.t)
    THEN [i \in 1..Len(seeds.items) |-> Member(TRUE, seeds.items[i].score)]
    ELSE <<>>

seedsTaken(size, seeds) ==
  IF Truthy(seeds.t)
    THEN LET taken == slice(seeds.items, FloorHalf(size)) IN
         [i \in 1..Len(taken) |-> Member(TRUE, taken[i].score)]
    ELSE <<>>

\* `while (population.length < size)` comes to an end: every round adds one
\* member, and no length reaches Infinity
loopEnds(size) == ~size.inf

\* how often the while loop of generateInitialPopulation runs, when it ends
randomsNeeded(size, seeds) ==
  IF size.nan \/ size.inf THEN 0 ELSE Max(size.n - Len(seedsTaken(size, seeds)), 0)

\* randoms: the scores of the architectures the loop draws, in order
generateInitialPopulation(size, seeds, randoms) ==
  LET taken == seedsTaken(size, seeds)
      fill == randomsNeeded(size, seeds)
  IN sortByScore(taken \o [i \in 1..fill |-> Member(FALSE, randoms[i])])

NoSeeds == [t |-> "undefined", items |-> <<>>]

\* the population size each initializer asks generateInitialPopulation for
populationSize(algorithm, parallel) ==
  CASE algorithm = "evolutionary" -> MathMin(Times(parallel, 4), 50)
    [] algorithm = "bayesian" -> MathMin(Times(parallel, 2), 20)
    [] algorithm = "gradient" -> parallel
    [] algorithm = "random" -> Times(parallel, 2)
    [] OTHER -> Num(0)

initializeEvolutionarySearch(searchId, budget, currentBest, randoms) ==
  LET size == populationSize("evolutionary", budget.parallel)
      candidates == generateInitialPopulation(size, currentBest, randoms)
  IN Json([sent |-> "json", success |-> "true", algorithm |-> "evolutionary",
           searchId |-> searchId, status |-> "initialized",
           hasCandidates |-> TRUE, candidates |-> slice(candidates, Num(5))])

initializeBayesianOptimization(searchId, budget, randoms) ==
  LET initialSamples == populationSize("bayesian", budget.parallel) IN
  Json([sent |-> "json", success |-> "true", algorithm |-> "bayesian",
        searchId |-> searchId, status |-> "initialized",
        hasCandidates |-> TRUE,
        candidates |-> generateInitialPopulation(initialSamples, NoSeeds, randoms)])

initializeGradientBasedSearch(searchId, budget, randoms) ==
  Json([sent |-> "json", success |-> "true", algorithm |-> "gradient",
        searchId |-> searchId, status |-> "initialized",
        hasCandidates |-> TRUE,
        candidates |-> generateInitialPopulation(budget.parallel, NoSeeds, randoms)])

initializeReinforcementLearning(searchId, budget) ==
  Json([sent |-> "json", success |-> "true", algorithm |-> "reinforcement",
        searchId |-> searchId, status |-> "initialized",
        hasCandidates |-> TRUE, candidates |-> <<>>])

initializeRandomSearch(searchId, budget, randoms) ==
  LET candidates ==
        generateInitialPopulation(populationSize("random", budget.parallel), NoSeeds, randoms)
  IN Json([sent |-> "json", success |-> "true", algorithm |-> "random",
           searchId |-> searchId, status |-> "initialized",
           hasCandidates |-> TRUE, candidates |-> slice(candidates, Num(5))])

\* getOptimizationStatus looking the search up in a session store: a stopped
\* search is reported completed
getOptimizationStatus_stored(searchId, randoms) ==
  Json([sent |-> "json", success |-> "true", algorithm |-> "evolutionary",
        searchId |-> searchId,
        status |-> IF searchId \in DOMAIN sessions /\ sessions[searchId] = "stopped"
                     THEN "completed" ELSE "running",
        hasCandidates |-> TRUE,
        candidates |-> generateInitialPopulation(Num(StatusCandidates), NoSeeds, randoms)])

getOptimizationStatus(searchId, randoms) ==
  Json([sent |-> "json", success |-> "true", algorithm |-> "evolutionary",
        searchId |-> searchId, status |-> "running",
        hasCandidates |-> TRUE,
        candidates |-> generateInitialPopulation(Num(StatusCandidates), NoSeeds, randoms)])

actions == {"pause", "resume", "adjust_budget", "expand_search_space"}

updateOptimization(searchId, action) ==
  IF action \notin actions
    THEN Json([sent |-> "json", success |-> "false", algorithm |-> "",
               searchId |-> searchId, status |-> "failed", error |-> "Invalid action"])
    ELSE Json([sent |-> "json", success |-> "true", algorithm |-> "evolutionary",
               searchId |-> searchId, status |-> "running"])

stopOptimization(searchId) ==
  Json([sent |-> "json", success |-> "true", algorithm |-> "evolutionary",
        searchId |-> searchId, status |-> "completed"])

\* the suffix `${Date.now()}_${Math.random().toString(36).substr(2, 9)}`
Stamp == "1700000000000_k3x9p2q1z"

newSearchId(algorithm) == "nas_" \o algorithm \o "_" \o Stamp

AlgorithmValues ==
  {"undefined", "evolutionary", "bayesian", "gradient", "reinforcement", "random", "genetic"}

PresenceValues == {"undefined", "object"}

\* the `budget` key: undefined, or an object whose `parallel` is missing
\* (NaN in the arithmetic) or an integer
BudgetValues ==
  {[t |-> "undefined", parallel |-> NaN], [t |-> "object", parallel |-> NaN]}
    \cup {[t |-> "object", parallel |-> Num(n)] : n \in -1..MaxParallel}

SearchIdValues == {"undefined", newSearchId("evolutionary"), "abc"}

ActionValues == {"undefined", "restart"} \cup actions

\* the handler never reaches a call of res.json or res.end
Unanswered(name) == Response(name, 0, NoCors, NoBody)

handleStartOptimization(algorithm, searchSpace, objectives, budget, currentBest, randoms) ==
  LET name == "optimization"
      searchId == newSearchId(algorithm)
  IN
  IF ~Truthy(algorithm) \/ ~Truthy(searchSpace) \/ ~Truthy(objectives) \/ ~Truthy(budget.t)
    THEN Response(name, 400, ChatCors,
           Json([sent |-> "json", success |-> "false",
                 error |-> "Missing required parameters: algorithm, searchSpace, objectives, budget"]))
  ELSE IF ~loopEnds(populationSize(algorithm, budget.parallel)) THEN Unanswered(name)
  ELSE CASE algorithm = "evolutionary" ->
              Response(name, 200, ChatCors,
                initializeEvolutionarySearch(searchId, budget, currentBest, randoms))
         [] algorithm = "bayesian" ->
              Response(name, 200, ChatCors, initializeBayesianOptimization(searchId, budget, randoms))
         [] algorithm = "gradient" ->
              Response(name, 200, ChatCors, initializeGradientBasedSearch(searchId, budget, randoms))
         [] algorithm = "reinforcement" ->
              Response(name, 200, ChatCors, initializeReinforcementLearning(searchId, budget))
         [] algorithm = "random" ->
              Response(name, 200, ChatCors, initializeRandomSearch(searchId, budget, randoms))
         [] OTHER ->
              Response(name, 400, ChatCors,
                Json([sent |-> "json", success |-> "false", error |-> "Unsupported algorithm"]))

SearchIdRequired ==
  Json([sent |-> "json", success |-> "false", error |-> "Search ID is required"])

handleGetOptimizationStatus(searchId, randoms) ==
  IF ~Truthy(searchId)
    THEN Response("optimization", 400, ChatCors, SearchIdRequired)
    ELSE Response("optimization", 200, ChatCors, getOptimizationStatus(searchId, randoms))

handleUpdateOptimization(searchId, action) ==
  IF ~Truthy(searchId) \/ ~Truthy(action)
    THEN Response("optimization", 400, ChatCors,
           Json([sent |-> "json", success |-> "false",
                 error |-> "Search ID and action are required"]))
    ELSE Response("optimization", 200, ChatCors, updateOptimization(searchId, action))

handleStopOptimization(searchId) ==
  IF ~Truthy(searchId)
    THEN Response("optimization", 400, ChatCors, SearchIdRequired)
    ELSE Response("optimization", 200, ChatCors, stopOptimization(searchId))

\* the number of random scores the handler draws for a request
randomsOf(r) ==
  IF r.method = "GET" /\ Truthy(r.searchId) THEN StatusCandidates
  ELSE IF /\ r.method = "POST"
          /\ Truthy(r.algorithm) /\ Truthy(r.searchSpace)
          /\ Truthy(r.objectives) /\ Truthy(r.budget.t)
    THEN randomsNeeded(populationSize(r.algorithm, r.budget.parallel),
                       IF r.algorithm = "evolutionary" THEN r.currentBest ELSE NoSeeds)
  ELSE 0

OptimizationHandler(r, randoms) ==
  CASE r.method = "OPTIONS" -> Response("optimization", 200, ChatCors, NoBody)
    [] r.method = "POST" ->
         handleStartOptimization(r.algorithm, r.searchSpace, r.objectives, r.budget,
                                 r.currentBest, randoms)
    [] r.method = "GET" -> handleGetOptimizationStatus(r.searchId, randoms)
    [] r.method = "PUT" -> handleUpdateOptimization(r.searchId, r.action)
    [] r.method = "DELETE" -> handleStopOptimization(r.searchId)
    [] OTHER -> Response("optimization", 405, ChatCors, MethodNotAllowed)

(***************************************************************************)
(* /api/external-ai                                                        *)
(***************************************************************************)
ExternalCors ==
  [origin |-> "*", methods |-> "GET, POST, OPTIONS",
   headers |-> "Content-Type, Authorization"]

ServiceValues ==
  {"undefined", "openai", "anthropic", "cohere", "huggingface", "replicate", "gemini"}

SupportedServices == {"openai", "anthropic", "cohere", "huggingface", "replicate"}

OpenAITasks ==
  {"code_generation", "architecture_analysis", "optimization_suggestions", "research_synthesis"}

TaskValues == {"undefined", "translate"} \cup OpenAITasks

\* "throws" for a task the switch does not list
processOpenAIRequest(task) ==
  IF task \in OpenAITasks
    THEN Json([sent |-> "json", success |-> "true", service |-> "openai", task |-> task])
    ELSE Json([sent |-> "throws"])

ExternalAiHandler(method, service, task, input) ==
  LET name == "external-ai" IN
  IF method = "OPTIONS" THEN Response(name, 200, ExternalCors, NoBody)
  ELSE IF method # "POST" THEN Response(name, 405, ExternalCors, MethodNotAllowed)
  ELSE IF ~Truthy(service) \/ ~Truthy(task) \/ ~Truthy(input)
    THEN Response(name, 400, ExternalCors,
           Json([sent |-> "json", success |-> "false",
                 error |-> "Missing required parameters: service, task, input"]))
  ELSE IF service = "openai"
    THEN IF processOpenAIRequest(task).sent = "throws"
           THEN Response(name, 500, ExternalCors,
                  Json([sent |-> "json", success |-> "false",
                        error |-> "External AI service error"]))
           ELSE Response(name, 200, ExternalCors, processOpenAIRequest(task))
  ELSE IF service \in SupportedServices
    THEN Response(name, 200, ExternalCors,
           Json([sent |-> "json", success |-> "true", service |-> service, task |-> task]))
  ELSE Response(name, 400, ExternalCors,
         Json([sent |-> "json", success |-> "false", error |-> "Unsupported service"]))

(***************************************************************************)
(* netlify/edge-functions/debug-logger.ts                                  *)
(***************************************************************************)
PostPaths ==
  {"/api/debug/log", "/api/debug/performance", "/api/debug/error", "/api/debug/session"}

PathValues == PostPaths \cup {"/api/debug/info", "/api/debug/other"}

\* the request body: unparsable, JSON without `level`, JSON with `level`
DebugBodyValues == {"invalid", "noLevel", "withLevel"}

\* DebugLogger building the "not found" response without corsHeaders
DebugLogger_bareNotFound(method, path, body) ==
  LET name == "debug-logger" IN
  IF method = "OPTIONS" THEN Response(name, 200, ExternalCors, NoBody)
  ELSE IF path \in PostPaths /\ method = "POST"
    THEN IF body = "invalid" \/ (path = "/api/debug/log" /\ body = "noLevel")
           THEN Response(name, 500, ExternalCors,
                  Json([sent |-> "json", error |-> "Internal debug service error"]))
           ELSE Response(name, 200, ExternalCors, Json([sent |-> "json", success |-> "true"]))
  ELSE IF path = "/api/debug/info" /\ method = "GET"
    THEN Response(name, 200, ExternalCors, Json([sent |-> "json", doc |-> TRUE]))
  ELSE Response(name, 404, NoCors,
         Json([sent |-> "json", error |-> "Debug endpoint not found"]))

DebugLogger(method, path, body) ==
  LET name == "debug-logger" IN
  IF method = "OPTIONS" THEN Response(name, 200, ExternalCors, NoBody)
  ELSE IF path \in PostPaths /\ method = "POST"
    THEN IF body = "invalid" \/ (path = "/api/debug/log" /\ body = "noLevel")
           \* request.json() rejects; logData.level.toUpperCase() throws
           THEN Response(name, 500, ExternalCors,
                  Json([sent |-> "json", error |-> "Internal debug service error"]))
           ELSE Response(name, 200, ExternalCors, Json([sent |-> "json", success |-> "true"]))
  ELSE IF path = "/api/debug/info" /\ method = "GET"
    THEN Response(name, 200, ExternalCors, Json([sent |-> "json", doc |-> TRUE]))
  ELSE Response(name, 404, ExternalCors,
         Json([sent |-> "json", error |-> "Debug endpoint not found"]))

(***************************************************************************)
(* Requests.  Every request has the same keys; a key the client did not    *)
(* send is "undefined".                                                    *)
(***************************************************************************)
Methods == {"GET", "POST", "PUT", "DELETE", "OPTIONS", "PATCH"}

NoMessages == [t |-> "undefined", items |-> <<>>]

NoArchitecture == [t |-> "undefined", hasLayers |-> FALSE, layers |-> <<>>, parameters |-> 0]

NoConstraints == [t |-> "undefined", maxParams |-> 0, targetLatency |-> 0]

NoBudget == [t |-> "undefined", parallel |-> NaN]

NoReq ==
  [handler |-> Absent, method |-> Absent, messages |-> NoMessages,
   currentExperiment |-> FALSE, operation |-> "undefined",
   architecture |-> NoArchitecture, dataset |-> "undefined",
   constraints |-> NoConstraints, currentBest |-> NoSeeds,
   algorithm |-> "undefined", searchSpace |-> "undefined",
   objectives |-> "undefined", budget |-> NoBudget, searchId |-> "undefined",
   action |-> "undefined", service |-> "undefined", task |-> "undefined",
   input |-> "undefined", path |-> Absent, body |-> "withLevel"]

Request(fields) == [k \in DOMAIN NoReq |-> IF k \in DOMAIN fields THEN fields[k] ELSE NoReq[k]]

NoRes == Response(Absent, 0, NoCors, NoBody)

ExpressChatRequests ==
  {Request([handler |-> "express-chat", method |-> "POST", messages |-> m]) :
     m \in MessagesValues \cup TopicMessages}

ChatRequests ==
  {Request([handler |-> "chat", method |-> "POST", messages |-> m]) :
     m \in MessagesValues \cup TopicMessages}
    \cup {Request([handler |-> "chat", method |-> m]) : m \in Methods}

EnhancedRequests ==
  {Request([handler |-> "shaurya-ai-enhanced", method |-> "POST", messages |-> m,
            currentExperiment |-> c]) :
     m \in MessagesValues \cup PromptMessages, c \in BOOLEAN}
    \cup {Request([handler |-> "shaurya-ai-enhanced", method |-> m]) : m \in Methods}

IndexRequests == {Request([handler |-> "index", method |-> m]) : m \in Methods}

NasAiRequests ==
  {Request([handler |-> "nas-ai", method |-> m, operation |-> o]) :
     m \in Methods, o \in OperationValues}
    \cup {Request([handler |-> "nas-ai", method |-> "POST", operation |-> "evaluate",
                   architecture |-> a, dataset |-> d]) :
            a \in ArchitectureValues, d \in DatasetValues}
    \cup {Request([handler |-> "nas-ai", method |-> "POST", operation |-> o,
                   architecture |-> a, constraints |-> c]) :
            o \in {"optimize", "suggest"},
            a \in {x \in ArchitectureValues : Len(x.layers) <= 1}, c \in ConstraintsValues}
    \cup {Request([handler |-> "nas-ai", method |-> "POST", operation |-> "compare",
                   currentBest |-> b]) : b \in CurrentBestValues}

OptimizationRequests ==
  {Request([handler |-> "optimization", method |-> m, searchId |-> i]) :
     m \in Methods \ {"PUT"}, i \in SearchIdValues}
    \cup {Request([handler |-> "optimization", method |-> "PUT", searchId |-> i, action |-> a]) :
            i \in SearchIdValues, a \in ActionValues}
    \cup {Request([handler |-> "optimization", method |-> "POST", algorithm |-> a,
                   searchSpace |-> s, objectives |-> o, budget |-> b]) :
            a \in AlgorithmValues, s \in PresenceValues, o \in PresenceValues,
            b \in BudgetValues}
    \cup {Request([handler |-> "optimization", method |-> "POST",
                   algorithm |-> "evolutionary", searchSpace |-> "object",
                   objectives |-> "object", budget |-> b, currentBest |-> c]) :
            b \in BudgetValues, c \in CurrentBestValues}
    \cup {Request([handler |-> "optimization", method |-> "POST", algorithm |-> a,
                   searchSpace |-> "object", objectives |-> "object",
                   budget |-> [t |-> "object", parallel |-> Infinity]]) :
            a \in {"gradient", "random", "reinforcement"}}

ExternalAiRequests ==
  {Request([handler |-> "external-ai", method |-> m, service |-> s, task |-> t, input |-> i]) :
     m \in Methods, s \in ServiceValues, t \in TaskValues, i \in PresenceValues}

DebugRequests ==
  {Request([handler |-> "debug-logger", method |-> m, path |-> p, body |-> b]) :
     m \in Methods, p \in PathValues, b \in DebugBodyValues}

(***************************************************************************)
(* client/lib/supabase.ts over the tables of database/schema.sql.          *)
(*                                                                         *)
(* A row keeps the columns the facade and the checked properties touch.    *)
(* A payload or a partial update is a record over the same keys in which   *)
(* a missing key is Absent (text) or Undefined (numbers).  Decimals are in *)
(* units of 1e-3; timestamps are clock readings.                           *)
(***************************************************************************)
Undefined == [t |-> "undefined", n |-> 0]

Null == [t |-> "null", n |-> 0]

Number(n) == [t |-> "number", n |-> n]

Owner == "Shaurya Upadhyay"

\* the readings of the clock (NOW() in the store, new Date() in the client)
Instants == {1, 2}

architecture_status == {"pending", "training", "completed", "failed", "cancelled"}

\* a DECIMAL(5,2) column: numeric input is rounded to two decimals
decimal52(v) == IF v.t = "number" THEN Number(((v.n + 5) \div 10) * 10) ELSE Null

NoExperiment ==
  [id |-> Absent, name |-> Absent, target_accuracy |-> Undefined, status |-> Absent,
   created_by |-> Absent, updated_at |-> Undefined]

\* the row schema.sql inserts
SeedExperiment ==
  [id |-> "e0", name |-> "ImageNet Efficiency Search", target_accuracy |-> Null,
   status |-> "completed", created_by |-> Owner, updated_at |-> Number(1)]

\* the values uuid_generate_v4() can give
ExperimentIds == {"e" \o ToString(i) : i \in 0..(MaxExperiments - 1)}

\* DEFAULT uuid_generate_v4(): an id no row of the table has (the first
\* unused number after the prefix)
fresh(prefix, used) ==
  prefix \o ToString(CHOOSE i \in 1..(Cardinality(used) + 1) :
                        /\ (prefix \o ToString(i)) \notin used
                        /\ \A j \in 1..(i - 1) : (prefix \o ToString(j)) \in used)

\* the sequences that list every element of a set once
Orderings(S) ==
  {q \in [1..Cardinality(S) -> S] : \A i, j \in 1..Cardinality(S) : i # j => q[i] # q[j]}

\* what the store answers: the table after the statement, the rows of the
\* representation and the error, if any
StoreResult(table, rows, error) == [table |-> table, rows |-> rows, error |-> error]

\* the request does not reach the store or the store refuses it
StoreFailure(table) == StoreResult(table, <<>>, "request failed")

\* .maybeSingle(): at most one row
single_orNone(result) ==
  IF result.error # Absent THEN result
  ELSE IF Len(result.rows) <= 1 THEN result
  ELSE StoreResult(result.table, <<>>, "PGRST116")

\* .single(): exactly one row, or an error
single(result) ==
  IF result.error # Absent THEN result
  ELSE IF Len(result.rows) = 1 THEN result
  ELSE StoreResult(result.table, <<>>, "PGRST116")

\* INSERT INTO search_experiments ... RETURNING *
insertExperiment(table, values, id, now) ==
  LET row ==
        [id |-> IF values.id = Absent THEN id ELSE values.id,
         name |-> values.name,
         target_accuracy |-> decimal52(values.target_accuracy),
         status |-> IF values.status = Absent THEN "pending" ELSE values.status,
         created_by |-> IF values.created_by = Absent THEN Owner ELSE values.created_by,
         updated_at |-> IF values.updated_at.t = "number" THEN values.updated_at
                        ELSE Number(now)]
  IN IF values.name = Absent THEN StoreResult(table, <<>>, "23502")
     ELSE IF row.status \notin architecture_status THEN StoreResult(table, <<>>, "22P02")
     ELSE IF \E r \in table : r.id = row.id THEN StoreResult(table, <<>>, "23505")
     ELSE StoreResult(table \cup {row}, <<row>>, Absent)

\* SELECT * FROM search_experiments WHERE id = ...
selectExperiment(table, id) ==
  IF \E r \in table : r.id = id
    THEN StoreResult(table, <<CHOOSE r \in table : r.id = id>>, Absent)
    ELSE StoreResult(table, <<>>, Absent)

\* the row after SET of the supplied columns
patched(row, values) ==
  [id |-> IF values.id = Absent THEN row.id ELSE values.id,
   name |-> IF values.name = Absent THEN row.name ELSE values.name,
   target_accuracy |-> IF values.target_accuracy.t = "undefined" THEN row.target_accuracy
                       ELSE decimal52(values.target_accuracy),
   status |-> IF values.status = Absent THEN row.status ELSE values.status,
   created_by |-> IF values.created_by = Absent THEN row.created_by ELSE values.created_by,
   updated_at |-> IF values.updated_at.t = "undefined" THEN row.updated_at
                  ELSE values.updated_at]

\* UPDATE search_experiments SET ... WHERE id = ... RETURNING *; referenced
\* is the set of experiment ids that rows of other tables point to
updateExperimentRows(table, id, values, referenced) ==
  LET matching == {r \in table : r.id = id}
      kept == table \ matching
      changed == {patched(r, values) : r \in matching}
  IN IF values.status # Absent /\ values.status \notin architecture_status
       THEN StoreResult(table, <<>>, "22P02")
     ELSE IF \E r \in changed : \E k \in kept : r.id = k.id
       THEN StoreResult(table, <<>>, "23505")
     ELSE IF \E r \in matching : r.id \in referenced /\ patched(r, values).id # r.id
       THEN StoreResult(table, <<>>, "23503")
     ELSE StoreResult(kept \cup changed,
                      IF changed = {} THEN <<>> ELSE <<CHOOSE r \in changed : TRUE>>,
                      Absent)

\* DELETE FROM search_experiments WHERE id = ... leaving the rows that
\* point to the experiment as they are
deleteExperimentRows_noAction(experiments, architectures, progress, conversations, id) ==
  [experiments |-> {r \in experiments : r.id # id}, architectures |-> architectures,
   progress |-> progress, conversations |-> conversations]

\* DELETE FROM search_experiments WHERE id = ...: the rows of
\* neural_architectures and search_progress that point to the experiment go
\* with it (ON DELETE CASCADE), those of ai_conversations lose the link
\* (ON DELETE SET NULL)
deleteExperimentRows(experiments, architectures, progress, conversations, id) ==
  IF ~\E r \in experiments : r.id = id
    THEN [experiments |-> experiments, architectures |-> architectures,
          progress |-> progress, conversations |-> conversations]
  ELSE [experiments |-> {r \in experiments : r.id # id},
        architectures |-> {r \in architectures : r.experiment_id # id},
        progress |-> SelectSeq(progress, LAMBDA r : r.experiment_id # id),
        conversations |->
          [i \in 1..Len(conversations) |->
             IF conversations[i].experiment_id = id
               THEN [conversations[i] EXCEPT !.experiment_id = Absent]
               ELSE conversations[i]]]

(***************************************************************************)
(* The client object.  Without URL or key the module exports a stub whose  *)
(* from() gives an object with select, insert, update and delete returning *)
(* a Promise and eq, order, limit and single returning the object itself;  *)
(* when createClient throws, the module exports null.                      *)
(***************************************************************************)
ClientValues == {"client", "stub", "null"}

RECURSIVE stubChain(_, _)
\* the value of from(...).m1(...).m2(...)... on the stub
stubChain(value, methods) ==
  IF methods = <<>> THEN [threw |-> FALSE, value |-> value, method |-> Absent]
  ELSE IF value = "promise"
    THEN [threw |-> TRUE, value |-> "TypeError", method |-> Head(methods)]
  ELSE IF Head(methods) \in {"select", "insert", "update", "delete"}
    THEN stubChain("promise", Tail(methods))
  ELSE stubChain("builder", Tail(methods))

NoOutcome == [kind |-> "none", error |-> Absent, rows |-> <<>>, totals |-> <<>>]

Returned(rows) == [kind |-> "returned", error |-> Absent, rows |-> rows, totals |-> <<>>]

Threw(error) == [kind |-> "threw", error |-> error, rows |-> <<>>, totals |-> <<>>]

\* `const { data, error } = await <chain>; if (error) throw error; return
\* data` when the client is the stub or null
withoutStore(client, methods) ==
  IF client = "null" THEN Threw("TypeError: Cannot read properties of null")
  ELSE LET r == stubChain("builder", methods) IN
       IF r.threw THEN Threw("TypeError: " \o r.method \o " is not a function")
       ELSE IF r.value = "promise" THEN Threw("Supabase not configured")
       ELSE Returned(<<>>)

\* the same two lines over an answer of the store
throwOrReturn(result) ==
  IF result.error # Absent THEN Threw(result.error) ELSE Returned(result.rows)

FacadeResult(table, result) == [table |-> table, outcome |-> result]

\* createExperiment passing the payload on as it is
createExperiment_asGiven(client, table, experiment, id, now, fails) ==
  IF client # "client"
    THEN FacadeResult(table, withoutStore(client, <<"insert", "select", "single">>))
  ELSE LET result ==
             IF fails THEN StoreFailure(table)
             ELSE single(insertExperiment(table, experiment, id, now))
       IN FacadeResult(result.table, throwOrReturn(result))

createExperiment(client, table, experiment, id, now, fails) ==
  IF client # "client"
    THEN FacadeResult(table, withoutStore(client, <<"insert", "select", "single">>))
  ELSE LET result ==
             IF fails THEN StoreFailure(table)
             ELSE single(insertExperiment(table, [experiment EXCEPT !.created_by = Owner],
                                          id, now))
       IN FacadeResult(result.table, throwOrReturn(result))

getExperiments(client, table, rows, fails) ==
  IF client # "client"
    THEN FacadeResult(table, withoutStore(client, <<"select", "order">>))
  ELSE LET result == IF fails THEN StoreFailure(table) ELSE StoreResult(table, rows, Absent)
       IN FacadeResult(table, throwOrReturn(result))

getExperiment(client, table, id, fails) ==
  IF client # "client"
    THEN FacadeResult(table, withoutStore(client, <<"select", "eq", "single">>))
  ELSE LET result == IF fails THEN StoreFailure(table) ELSE single(selectExperiment(table, id))
       IN FacadeResult(table, throwOrReturn(result))

\* updateExperiment spreading the partial over the new timestamp
updateExperiment_partialLast(client, table, id, updates, now, referenced, fails) ==
  IF client # "client"
    THEN FacadeResult(table, withoutStore(client, <<"update", "eq", "select", "single">>))
  ELSE LET result ==
             IF fails THEN StoreFailure(table)
             ELSE single(updateExperimentRows(table, id,
                           IF updates.updated_at.t = "undefined"
                             THEN [updates EXCEPT !.updated_at = Number(now)]
                             ELSE updates, referenced))
       IN FacadeResult(result.table, throwOrReturn(result))

updateExperiment(client, table, id, updates, now, referenced, fails) ==
  IF client # "client"
    THEN FacadeResult(table, withoutStore(client, <<"update", "eq", "select", "single">>))
  ELSE LET result ==
             IF fails THEN StoreFailure(table)
             ELSE single(updateExperimentRows(table, id,
                           [updates EXCEPT !.updated_at = Number(now)], referenced))
       IN FacadeResult(result.table, throwOrReturn(result))

(***************************************************************************)
(* neural_architectures, the two views, search_progress, ai_conversations. *)
(* The log tables are sequences in insertion order.                        *)
(***************************************************************************)
NoArchitectureRow ==
  [id |-> Absent, experiment_id |-> Absent, name |-> Absent, status |-> Absent,
   overall_score |-> Undefined]

\* the three rows schema.sql inserts (overall_score in 1e-3)
SeedArchitectures ==
  {[id |-> "a1", experiment_id |-> "e0", name |-> "EfficientNet-B7", status |-> "completed",
    overall_score |-> Number(87300)],
   [id |-> "a2", experiment_id |-> "e0", name |-> "ResNet-152", status |-> "completed",
    overall_score |-> Number(85100)],
   [id |-> "a3", experiment_id |-> "e0", name |-> "MobileNetV3-Large", status |-> "completed",
    overall_score |-> Number(92400)]}

\* a foreign key to search_experiments(id): NULL or an existing id
references(experiment_id, experiments) ==
  experiment_id = Absent \/ \E e \in experiments : e.id = experiment_id

insertArchitecture(table, values, id, experiments) ==
  LET row ==
        [id |-> id, experiment_id |-> values.experiment_id, name |-> values.name,
         status |-> IF values.status = Absent THEN "pending" ELSE values.status,
         overall_score |-> decimal52(values.overall_score)]
  IN IF values.name = Absent THEN StoreResult(table, <<>>, "23502")
     ELSE IF row.status \notin architecture_status THEN StoreResult(table, <<>>, "22P02")
     ELSE IF ~references(values.experiment_id, experiments)
       THEN StoreResult(table, <<>>, "23503")
     ELSE StoreResult(table \cup {row}, <<row>>, Absent)

\* ORDER BY overall_score DESC NULLS LAST: the rows with a score by falling
\* score, then the rows without; rows that compare equal come in any order
byScore(q) ==
  \A i, j \in 1..Len(q) :
    i < j =>
      \/ q[j].overall_score.t # "number"
      \/ q[i].overall_score.t = "number" /\ q[i].overall_score.n >= q[j].overall_score.n

\* the answers of SELECT * FROM neural_architectures [WHERE experiment_id = ...]
\* ORDER BY overall_score DESC NULLS LAST
selectArchitectures(table, experimentId) ==
  {q \in Orderings({r \in table : experimentId = Absent \/ r.experiment_id = experimentId}) :
     byScore(q)}

\* the view architecture_leaderboard: completed architectures joined with
\* their experiment, by falling score, cut to `limit` rows
architecture_leaderboard(table, experiments, limit) ==
  {SubSeq(q, 1, Min(limit, Len(q))) :
     q \in {o \in Orderings({r \in table :
                               /\ r.status = "completed"
                               /\ \E e \in experiments : e.id = r.experiment_id}) :
              byScore(o)}}

createArchitecture(client, table, architecture, id, experiments, fails) ==
  IF client # "client"
    THEN FacadeResult(table, withoutStore(client, <<"insert", "select", "single">>))
  ELSE LET result ==
             IF fails THEN StoreFailure(table)
             ELSE single(insertArchitecture(table, architecture, id, experiments))
       IN FacadeResult(result.table, throwOrReturn(result))

\* rows is one of the answers of the store
getArchitectures(client, table, experimentId, rows, fails) ==
  IF client # "client"
    THEN FacadeResult(table,
           withoutStore(client,
             IF experimentId # Absent THEN <<"select", "eq", "order", "order">>
             ELSE <<"select", "order", "order">>))
  ELSE LET result == IF fails THEN StoreFailure(table) ELSE StoreResult(table, rows, Absent)
       IN FacadeResult(table, throwOrReturn(result))

getTopArchitectures(client, table, rows, fails) ==
  IF client # "client"
    THEN FacadeResult(table, withoutStore(client, <<"select", "limit">>))
  ELSE LET result == IF fails THEN StoreFailure(table) ELSE StoreResult(table, rows, Absent)
       IN FacadeResult(table, throwOrReturn(result))

getArchitecture(client, table, id, fails) ==
  IF client # "client"
    THEN FacadeResult(table, withoutStore(client, <<"select", "eq", "single">>))
  ELSE LET result ==
             IF fails THEN StoreFailure(table)
             ELSE single(StoreResult(table,
                           IF \E r \in table : r.id = id
                             THEN <<CHOOSE r \in table : r.id = id>> ELSE <<>>,
                           Absent))
       IN FacadeResult(table, throwOrReturn(result))

\* the view experiment_summary has one row for each experiment
getExperimentSummary(client, table, experimentId, fails) ==
  IF client # "client"
    THEN FacadeResult(table, withoutStore(client, <<"select", "eq", "single">>))
  ELSE LET result ==
             IF fails THEN StoreFailure(table) ELSE single(selectExperiment(table, experimentId))
       IN FacadeResult(table, throwOrReturn(result))

NoProgress == [id |-> Absent, experiment_id |-> Absent, iteration |-> Undefined]

RowsOf(table) == {table[i] : i \in 1..Len(table)}

insertProgress(table, values, experiments) ==
  LET row ==
        [id |-> fresh("p", {r.id : r \in RowsOf(table)}), experiment_id |-> values.experiment_id,
         iteration |-> values.iteration]
  IN IF values.iteration.t # "number" THEN StoreResult(table, <<>>, "23502")
     ELSE IF ~references(values.experiment_id, experiments)
       THEN StoreResult(table, <<>>, "23503")
     ELSE StoreResult(Append(table, row), <<row>>, Absent)

\* the answers of the same SELECT without its ORDER BY
selectProgress_unordered(table, experimentId) ==
  Orderings({r \in RowsOf(table) : r.experiment_id = experimentId})

\* the answers of SELECT * FROM search_progress WHERE experiment_id = ...
\* ORDER BY iteration ASC
selectProgress(table, experimentId) ==
  {q \in Orderings({r \in RowsOf(table) : r.experiment_id = experimentId}) :
     \A i, j \in 1..Len(q) : i < j => q[i].iteration.n <= q[j].iteration.n}

recordProgress(client, table, progress, experiments, fails) ==
  IF client # "client"
    THEN FacadeResult(table, withoutStore(client, <<"insert", "select", "single">>))
  ELSE LET result ==
             IF fails THEN StoreFailure(table)
             ELSE single(insertProgress(table, progress, experiments))
       IN FacadeResult(result.table, throwOrReturn(result))

getProgress(client, table, experimentId, rows, fails) ==
  IF client # "client"
    THEN FacadeResult(table, withoutStore(client, <<"select", "eq", "order">>))
  ELSE LET result == IF fails THEN StoreFailure(table) ELSE StoreResult(table, rows, Absent)
       IN FacadeResult(table, throwOrReturn(result))

NoConversation ==
  [id |-> Absent, experiment_id |-> Absent, session_id |-> Absent, message_role |-> Absent,
   user_id |-> Absent, created_at |-> Undefined]

insertConversation(table, values, now, experiments) ==
  LET row ==
        [id |-> "c" \o ToString(Len(table) + 1), experiment_id |-> values.experiment_id,
         session_id |-> values.session_id,
         message_role |-> values.message_role,
         user_id |-> IF values.user_id = Absent THEN Owner ELSE values.user_id,
         created_at |-> IF values.created_at.t = "number" THEN values.created_at
                        ELSE Number(now)]
  IN IF values.message_role = Absent THEN StoreResult(table, <<>>, "23502")
     ELSE IF ~references(values.experiment_id, experiments)
       THEN StoreResult(table, <<>>, "23503")
     ELSE StoreResult(Append(table, row), <<row>>, Absent)

\* the answers of SELECT * FROM ai_conversations WHERE session_id = ...
\* ORDER BY created_at ASC
selectConversations(table, sessionId) ==
  {q \in Orderings({r \in RowsOf(table) : r.session_id = sessionId}) :
     \A i, j \in 1..Len(q) : i < j => q[i].created_at.n <= q[j].created_at.n}

saveConversation(client, table, conversation, now, experiments, fails) ==
  IF client # "client"
    THEN FacadeResult(table, withoutStore(client, <<"insert", "select", "single">>))
  ELSE LET result ==
             IF fails THEN StoreFailure(table)
             ELSE single(insertConversation(table, [conversation EXCEPT !.user_id = Owner],
                                            now, experiments))
       IN FacadeResult(result.table, throwOrReturn(result))

getConversations(client, table, sessionId, rows, fails) ==
  IF client # "client"
    THEN FacadeResult(table, withoutStore(client, <<"select", "eq", "order">>))
  ELSE LET result == IF fails THEN StoreFailure(table) ELSE StoreResult(table, rows, Absent)
       IN FacadeResult(table, throwOrReturn(result))

(***************************************************************************)
(* getGlobalStats: three count queries are issued together; each runs in   *)
(* the store and its answer reaches the client at some later moment;       *)
(* Promise.all hands the answers over in the order of the queries.         *)
(***************************************************************************)
NoQuery == [state |-> "none", count |-> Undefined, error |-> Absent]

NoQueries == <<NoQuery, NoQuery, NoQuery>>

\* select("id", { count: "exact", head: true }) answered by the store
countQuery(client, rowCount, fails) ==
  IF client = "stub"
    THEN [state |-> "answered", count |-> Undefined, error |-> "Supabase not configured"]
  ELSE IF fails THEN [state |-> "answered", count |-> Null, error |-> "request failed"]
  ELSE [state |-> "answered", count |-> Number(rowCount), error |-> Absent]

\* result.count || 0
countOrZero(query) ==
  IF query.count.t = "number" /\ query.count.n # 0 THEN query.count.n ELSE 0

\* getGlobalStats handing every total the answer of the first query
globalStats_firstAnswer(results) ==
  <<countOrZero(results[1]), countOrZero(results[1]), countOrZero(results[3])>>

\* the object getGlobalStats returns: total_experiments, total_architectures,
\* total_ai_conversations
globalStats(results) ==
  <<countOrZero(results[1]), countOrZero(results[2]), countOrZero(results[3])>>

(***************************************************************************)
(* The history of a search id: what the last start or stop request that    *)
(* named it did.                                                           *)
(***************************************************************************)
TrackedIds == {newSearchId("evolutionary")}

record(s, r, response) ==
  IF response.status # 200 THEN s
  ELSE IF r.method = "POST" /\ response.body.searchId \in TrackedIds
    THEN [s EXCEPT ![response.body.searchId] = "issued"]
  ELSE IF r.method = "DELETE" /\ r.searchId \in TrackedIds
    THEN [s EXCEPT ![r.searchId] = "stopped"]
  ELSE s

(***************************************************************************)
(* The facade (client/lib/supabase.ts): one action per method.  A call     *)
(* is made when no other call is in progress; its inputs are the payload,  *)
(* the clock reading, the id the store generates and whether the request   *)
(* to the store fails.  Settle is the caller taking the result.            *)
(***************************************************************************)
NoCall ==
  [op |-> Absent, id |-> Absent, arg |-> NoExperiment, now |-> 0, fails |-> FALSE,
   interleaved |-> FALSE]

Call(op, id, arg, now, fails) ==
  [op |-> op, id |-> id, arg |-> arg, now |-> now, fails |-> fails, interleaved |-> FALSE]

\* the inputs of the facade methods
ExperimentPayloads ==
  {NoExperiment,
   [NoExperiment EXCEPT !.name = "a"],
   [NoExperiment EXCEPT !.name = "a", !.target_accuracy = Number(95500)],
   [NoExperiment EXCEPT !.name = "a", !.target_accuracy = Number(95456)],
   [NoExperiment EXCEPT !.name = "a", !.created_by = "Mallory"],
   [NoExperiment EXCEPT !.name = "a", !.target_accuracy = Number(95456),
                        !.created_by = "Mallory"]}

ExperimentPartials ==
  {NoExperiment,
   [NoExperiment EXCEPT !.name = "b"],
   [NoExperiment EXCEPT !.status = "training"],
   [NoExperiment EXCEPT !.status = "bogus"],
   [NoExperiment EXCEPT !.updated_at = Number(0)],
   [NoExperiment EXCEPT !.name = "b", !.updated_at = Number(0)],
   [NoExperiment EXCEPT !.id = "e1"]}

IdValues == ExperimentIds \cup {"e-none"}

ArchitecturePayloads ==
  {NoArchitectureRow,
   [NoArchitectureRow EXCEPT !.name = "n", !.experiment_id = "e0"]}

ProgressPayloads ==
  {[NoProgress EXCEPT !.experiment_id = "e0"],
   [NoProgress EXCEPT !.experiment_id = "e0", !.iteration = Number(1)],
   [NoProgress EXCEPT !.experiment_id = "e0", !.iteration = Number(2)],
   [NoProgress EXCEPT !.experiment_id = "e-none", !.iteration = Number(1)]}

ConversationPayloads ==
  {[NoConversation EXCEPT !.session_id = "s1"],
   [NoConversation EXCEPT !.session_id = "s1", !.message_role = "user"],
   [NoConversation EXCEPT !.session_id = "s1", !.message_role = "user",
                          !.created_at = Number(1)],
   [NoConversation EXCEPT !.session_id = "s2", !.message_role = "ai"],
   [NoConversation EXCEPT !.session_id = "s2", !.message_role = "ai",
                          !.user_id = "Mallory"]}

\* payloads that point to an experiment
LinkedArchitectures == {[NoArchitectureRow EXCEPT !.name = "n", !.experiment_id = "e1"]}

LinkedProgress ==
  {[NoProgress EXCEPT !.experiment_id = e, !.iteration = Number(1)] : e \in {"e0", "e1"}}

LinkedConversations ==
  {[NoConversation EXCEPT !.session_id = "s1", !.message_role = "user",
                          !.experiment_id = e] : e \in {"e0", "e1"}}

MinimalExperiments == {NoExperiment, [NoExperiment EXCEPT !.name = "a"]}

MinimalPartials == {[NoExperiment EXCEPT !.name = "b"]}

MinimalProgress == {[NoProgress EXCEPT !.experiment_id = "e0", !.iteration = Number(1)]}

MinimalConversations ==
  {[NoConversation EXCEPT !.session_id = "s1", !.message_role = "user"]}

SessionValues == {"s1", "s2"}

\* getTopArchitectures(limit: number = 10)
DefaultLimit == 10

FacadeIdle == call.op = Absent

InFlight == call.op = "getGlobalStats" /\ outcome.kind = "none"

\* the experiment ids that rows of search_progress and neural_architectures
\* point to (ai_conversations is ON DELETE SET NULL but also NO ACTION on
\* update; the facade writes no experiment_id there)
Referenced ==
  {r.experiment_id : r \in RowsOf(search_progress)}
    \cup {r.experiment_id : r \in neural_architectures}
    \cup {r.experiment_id : r \in RowsOf(ai_conversations)}

FacadeInit(clients) ==
  /\ supabase \in clients
  /\ search_experiments = {SeedExperiment}
  /\ neural_architectures = SeedArchitectures
  /\ search_progress = <<>>
  /\ ai_conversations = <<>>
  /\ call = NoCall
  /\ outcome = NoOutcome
  /\ queries = NoQueries

CreateExperiment(payloads, instants) ==
  /\ FacadeIdle
  /\ Cardinality(search_experiments) < MaxExperiments
  /\ \E p \in payloads, now \in instants, fails \in BOOLEAN,
        id \in ExperimentIds \ {r.id : r \in search_experiments} :
       LET r == createExperiment(supabase, search_experiments, p, id, now, fails) IN
       /\ search_experiments' = r.table
       /\ call' = Call("createExperiment", Absent, p, now, fails)
       /\ outcome' = r.outcome
  /\ UNCHANGED <<supabase, neural_architectures, search_progress, ai_conversations, queries>>
  /\ UNCHANGED <<httpVars, widgetVars, lateVars>>

GetExperiments ==
  /\ FacadeIdle
  /\ \E rows \in Orderings(search_experiments), fails \in BOOLEAN :
       /\ call' = Call("getExperiments", Absent, NoExperiment, 0, fails)
       /\ outcome' = getExperiments(supabase, search_experiments, rows, fails).outcome
  /\ UNCHANGED <<supabase, search_experiments, neural_architectures, search_progress,
                 ai_conversations, queries>>
  /\ UNCHANGED <<httpVars, widgetVars, lateVars>>

GetExperiment ==
  /\ FacadeIdle
  /\ \E id \in IdValues, fails \in BOOLEAN :
       /\ call' = Call("getExperiment", id, NoExperiment, 0, fails)
       /\ outcome' = getExperiment(supabase, search_experiments, id, fails).outcome
  /\ UNCHANGED <<supabase, search_experiments, neural_architectures, search_progress,
                 ai_conversations, queries>>
  /\ UNCHANGED <<httpVars, widgetVars, lateVars>>

UpdateExperiment(partials, instants) ==
  /\ FacadeIdle
  /\ \E id \in IdValues, u \in partials, now \in instants, fails \in BOOLEAN :
       LET r == updateExperiment(supabase, search_experiments, id, u, now, Referenced, fails)
       IN /\ search_experiments' = r.table
          /\ call' = Call("updateExperiment", id, u, now, fails)
          /\ outcome' = r.outcome
  /\ UNCHANGED <<supabase, neural_architectures, search_progress, ai_conversations, queries>>
  /\ UNCHANGED <<httpVars, widgetVars, lateVars>>

CreateArchitecture(payloads) ==
  /\ FacadeIdle
  /\ Cardinality(neural_architectures) < Cardinality(SeedArchitectures) + MaxLogRows - 1
  /\ \E a \in payloads, fails \in BOOLEAN :
       LET id == fresh("a", {r.id : r \in neural_architectures})
           r == createArchitecture(supabase, neural_architectures, a, id,
                                   search_experiments, fails)
       IN /\ neural_architectures' = r.table
          /\ call' = Call("createArchitecture", Absent, a, 0, fails)
          /\ outcome' = r.outcome
  /\ UNCHANGED <<supabase, search_experiments, search_progress, ai_conversations, queries>>
  /\ UNCHANGED <<httpVars, widgetVars, lateVars>>

GetArchitectures ==
  /\ FacadeIdle
  /\ \E e \in {Absent, "e0"}, fails \in BOOLEAN :
       \E rows \in selectArchitectures(neural_architectures, e) :
         /\ call' = Call("getArchitectures", e, NoExperiment, 0, fails)
         /\ outcome' = getArchitectures(supabase, neural_architectures, e, rows, fails).outcome
  /\ UNCHANGED <<supabase, search_experiments, neural_architectures, search_progress,
                 ai_conversations, queries>>
  /\ UNCHANGED <<httpVars, widgetVars, lateVars>>

GetTopArchitectures ==
  /\ FacadeIdle
  /\ \E fails \in BOOLEAN :
       \E rows \in architecture_leaderboard(neural_architectures, search_experiments,
                                             DefaultLimit) :
         /\ call' = Call("getTopArchitectures", Absent, NoExperiment, 0, fails)
         /\ outcome' = getTopArchitectures(supabase, neural_architectures, rows, fails).outcome
  /\ UNCHANGED <<supabase, search_experiments, neural_architectures, search_progress,
                 ai_conversations, queries>>
  /\ UNCHANGED <<httpVars, widgetVars, lateVars>>

GetArchitecture ==
  /\ FacadeIdle
  /\ \E id \in {"a1", "a-none"}, fails \in BOOLEAN :
       /\ call' = Call("getArchitecture", id, NoExperiment, 0, fails)
       /\ outcome' = getArchitecture(supabase, neural_architectures, id, fails).outcome
  /\ UNCHANGED <<supabase, search_experiments, neural_architectures, search_progress,
                 ai_conversations, queries>>
  /\ UNCHANGED <<httpVars, widgetVars, lateVars>>

GetExperimentSummary ==
  /\ FacadeIdle
  /\ \E id \in IdValues, fails \in BOOLEAN :
       /\ call' = Call("getExperimentSummary", id, NoExperiment, 0, fails)
       /\ outcome' = getExperimentSummary(supabase, search_experiments, id, fails).outcome
  /\ UNCHANGED <<supabase, search_experiments, neural_architectures, search_progress,
                 ai_conversations, queries>>
  /\ UNCHANGED <<httpVars, widgetVars, lateVars>>

RecordProgress(payloads) ==
  /\ FacadeIdle
  /\ Len(search_progress) < MaxLogRows
  /\ \E p \in payloads, fails \in BOOLEAN :
       LET r == recordProgress(supabase, search_progress, p, search_experiments, fails) IN
       /\ search_progress' = r.table
       /\ call' = Call("recordProgress", Absent, p, 0, fails)
       /\ outcome' = r.outcome
  /\ UNCHANGED <<supabase, search_experiments, neural_architectures, ai_conversations, queries>>
  /\ UNCHANGED <<httpVars, widgetVars, lateVars>>

GetProgress ==
  /\ FacadeIdle
  /\ \E e \in IdValues, fails \in BOOLEAN :
       \E rows \in selectProgress(search_progress, e) :
         /\ call' = Call("getProgress", e, NoExperiment, 0, fails)
         /\ outcome' = getProgress(supabase, search_progress, e, rows, fails).outcome
  /\ UNCHANGED <<supabase, search_experiments, neural_architectures, search_progress,
                 ai_conversations, queries>>
  /\ UNCHANGED <<httpVars, widgetVars, lateVars>>

SaveConversation(payloads, instants) ==
  /\ FacadeIdle
  /\ Len(ai_conversations) < MaxLogRows
  /\ \E c \in payloads, now \in instants, fails \in BOOLEAN :
       LET r == saveConversation(supabase, ai_conversations, c, now, search_experiments,
                                 fails) IN
       /\ ai_conversations' = r.table
       /\ call' = Call("saveConversation", Absent, c, now, fails)
       /\ outcome' = r.outcome
  /\ UNCHANGED <<supabase, search_experiments, neural_architectures, search_progress, queries>>
  /\ UNCHANGED <<httpVars, widgetVars, lateVars>>

GetConversations ==
  /\ FacadeIdle
  /\ \E s \in SessionValues, fails \in BOOLEAN :
       \E rows \in selectConversations(ai_conversations, s) :
         /\ call' = Call("getConversations", s, NoExperiment, 0, fails)
         /\ outcome' = getConversations(supabase, ai_conversations, s, rows, fails).outcome
  /\ UNCHANGED <<supabase, search_experiments, neural_architectures, search_progress,
                 ai_conversations, queries>>
  /\ UNCHANGED <<httpVars, widgetVars, lateVars>>

\* getGlobalStats builds the three queries; with a null client the first
\* supabase.from throws
GetGlobalStats ==
  /\ FacadeIdle
  /\ call' = Call("getGlobalStats", Absent, NoExperiment, 0, FALSE)
  /\ IF supabase = "null"
       THEN /\ outcome' = Threw("TypeError: Cannot read properties of null")
            /\ UNCHANGED queries
       ELSE /\ queries' = [i \in 1..3 |-> [NoQuery EXCEPT !.state = "sent"]]
            /\ UNCHANGED outcome
  /\ UNCHANGED <<supabase, search_experiments, neural_architectures, search_progress,
                 ai_conversations>>
  /\ UNCHANGED <<httpVars, widgetVars, lateVars>>

\* the rows the i-th count query counts
CountedRows(i) ==
  CASE i = 1 -> Cardinality(search_experiments)
    [] i = 2 -> Cardinality(neural_architectures)
    [] i = 3 -> Len(ai_conversations)

\* the store answers one of the count queries
RunQuery ==
  /\ InFlight
  /\ \E i \in 1..3, fails \in BOOLEAN :
       /\ queries[i].state = "sent"
       /\ queries' = [queries EXCEPT ![i] = countQuery(supabase, CountedRows(i), fails)]
  /\ UNCHANGED <<supabase, search_experiments, neural_architectures, search_progress,
                 ai_conversations, call, outcome>>
  /\ UNCHANGED <<httpVars, widgetVars, lateVars>>

\* an answer reaches the client and its promise resolves
ResolveQuery ==
  /\ InFlight
  /\ \E i \in 1..3 :
       /\ queries[i].state = "answered"
       /\ queries' = [queries EXCEPT ![i].state = "resolved"]
  /\ UNCHANGED <<supabase, search_experiments, neural_architectures, search_progress,
                 ai_conversations, call, outcome>>
  /\ UNCHANGED <<httpVars, widgetVars, lateVars>>

\* Promise.all resolves and getGlobalStats returns
ReturnGlobalStats ==
  /\ InFlight
  /\ \A i \in 1..3 : queries[i].state = "resolved"
  /\ outcome' = [Returned(<<>>) EXCEPT !.totals = globalStats(queries)]
  /\ UNCHANGED <<supabase, search_experiments, neural_architectures, search_progress,
                 ai_conversations, call, queries>>
  /\ UNCHANGED <<httpVars, widgetVars, lateVars>>

\* another caller's createArchitecture completes while the count queries
\* are in flight
ConcurrentInsert ==
  /\ InFlight
  /\ supabase = "client"
  /\ Cardinality(neural_architectures) < Cardinality(SeedArchitectures) + MaxLogRows - 1
  /\ LET id == fresh("a", {r.id : r \in neural_architectures})
         a == [NoArchitectureRow EXCEPT !.name = "n", !.experiment_id = "e0"]
     IN neural_architectures' =
          createArchitecture(supabase, neural_architectures, a, id, search_experiments,
                             FALSE).table
  /\ call' = [call EXCEPT !.interleaved = TRUE]
  /\ UNCHANGED <<supabase, search_experiments, search_progress, ai_conversations, outcome,
                 queries>>
  /\ UNCHANGED <<httpVars, widgetVars, lateVars>>

\* supabase.from("search_experiments").delete().eq("id", id): the promise
\* resolves with { error }, also when the request fails
DeleteExperiment ==
  /\ FacadeIdle
  /\ supabase = "client"
  /\ \E id \in IdValues, fails \in BOOLEAN :
       LET t == IF fails
                  THEN deleteExperimentRows(search_experiments, neural_architectures,
                                            search_progress, ai_conversations, Absent)
                  ELSE deleteExperimentRows(search_experiments, neural_architectures,
                                            search_progress, ai_conversations, id)
       IN /\ search_experiments' = t.experiments
          /\ neural_architectures' = t.architectures
          /\ search_progress' = t.progress
          /\ ai_conversations' = t.conversations
          /\ call' = Call("deleteExperiment", id, NoExperiment, 0, fails)
          /\ outcome' = Returned(<<>>)
  /\ UNCHANGED <<supabase, queries>>
  /\ UNCHANGED <<httpVars, widgetVars, lateVars>>

\* the caller takes the result
Settle ==
  /\ outcome.kind # "none"
  /\ call' = NoCall
  /\ outcome' = NoOutcome
  /\ queries' = NoQueries
  /\ UNCHANGED <<supabase, search_experiments, neural_architectures, search_progress,
                 ai_conversations>>
  /\ UNCHANGED <<httpVars, widgetVars, lateVars>>

(***************************************************************************)
(* The configurable chat widget (AIChatWidget with AIConfigSettings).      *)
(* A message keeps its sender, what its content is and the number of the   *)
(* send that appended it (0: not appended by a send).                      *)
(***************************************************************************)
Message(sender, content, by) == [sender |-> sender, content |-> content, by |-> by]

initialMessages == <<Message("ai", "greeting", 0)>>

AIConfig(enabled, endpoint) == [enabled |-> enabled, endpoint |-> endpoint]

defaultConfig == AIConfig(FALSE, "")

ConfigValues ==
  {defaultConfig, AIConfig(TRUE, ""), AIConfig(FALSE, "https://ai.example/api"),
   AIConfig(TRUE, "https://ai.example/api")}

RECURSIVE trimStart(_)
trimStart(s) == IF s # <<>> /\ Head(s) = " " THEN trimStart(Tail(s)) ELSE s

RECURSIVE trimEnd(_)
trimEnd(s) ==
  IF s # <<>> /\ s[Len(s)] = " " THEN trimEnd(SubSeq(s, 1, Len(s) - 1)) ELSE s

trim(s) == trimEnd(trimStart(s))

InputValues == {<<>>, <<" ">>, <<"h", "i">>, <<" ", "h", "i", " ">>}

\* how the request to the configured endpoint can end
FetchResults ==
  {"fetch rejects", "status 500", "body is not JSON", "body is null",
   "choices[0].message.content", "content[0].text", "message", "no known key"}

\* callCustomAI: the text it returns, or the error it throws
callCustomAI(config, result) ==
  IF ~config.enabled \/ config.endpoint = ""
    THEN [threw |-> TRUE, value |-> "AI integration not configured"]
  ELSE IF result = "fetch rejects" THEN [threw |-> TRUE, value |-> "Failed to fetch"]
  ELSE IF result = "status 500" THEN [threw |-> TRUE, value |-> "API Error: 500"]
  ELSE IF result = "body is not JSON" THEN [threw |-> TRUE, value |-> "Unexpected token"]
  ELSE IF result = "body is null"
    THEN [threw |-> TRUE, value |-> "Cannot read properties of null"]
  ELSE IF result = "no known key"
    THEN [threw |-> FALSE, value |-> "I received your message but couldn't generate a proper response."]
  ELSE [threw |-> FALSE, value |-> "reply"]

NoSend == [pc |-> "idle", n |-> 0, aiResponse |-> Absent, failure |-> Absent]

\* the inner try/catch leaving a failure of callCustomAI uncaught, past the
\* outer try as well
afterCustomAI_uncaught(s, answer) ==
  IF answer.threw
    THEN [s EXCEPT !.pc = "escaped", !.failure = answer.value]
    ELSE [s EXCEPT !.pc = "delay", !.aiResponse = answer.value]

\* the inner try/catch of handleSendMessage around the call
afterCustomAI(s, answer) ==
  IF answer.threw
    THEN [s EXCEPT !.pc = "delay", !.aiResponse = "AI service error", !.failure = answer.value]
    ELSE [s EXCEPT !.pc = "delay", !.aiResponse = answer.value]

WidgetInit ==
  /\ chatMessages = initialMessages
  /\ inputValue = <<>>
  /\ isTyping = FALSE
  /\ aiConfig \in ConfigValues
  /\ send = NoSend

\* onChange of the input, which is disabled while isTyping
TypeInput ==
  /\ ~isTyping
  /\ \E v \in InputValues : inputValue' = v
  /\ inputValue' # inputValue
  /\ UNCHANGED <<chatMessages, isTyping, aiConfig, send>>
  /\ UNCHANGED <<httpVars, facadeVars, lateVars>>

\* handleSendMessage up to its first await; the button and the input are
\* disabled while isTyping
HandleSendMessage ==
  /\ widget = "configurable"
  /\ ~isTyping
  /\ send.n < MaxSends
  /\ IF trim(inputValue) = <<>>
       THEN /\ send' = [NoSend EXCEPT !.pc = "returned", !.n = send.n + 1]
            /\ UNCHANGED <<chatMessages, inputValue, isTyping>>
       ELSE /\ chatMessages' = Append(chatMessages, Message("user", "input", send.n + 1))
            /\ inputValue' = <<>>
            /\ isTyping' = TRUE
            /\ send' =
                 IF aiConfig.enabled /\ aiConfig.endpoint # ""
                   THEN [NoSend EXCEPT !.pc = "calling", !.n = send.n + 1]
                   ELSE [NoSend EXCEPT !.pc = "delay", !.n = send.n + 1,
                                       !.aiResponse = "fallback"]
  /\ UNCHANGED aiConfig
  /\ UNCHANGED <<httpVars, facadeVars, lateVars>>

\* the call to the endpoint ends; config is the aiConfig of the render the
\* callback was created in, which is the one HandleSendMessage tested
CustomAIEnds ==
  /\ send.pc = "calling"
  /\ \E result \in FetchResults :
       send' = afterCustomAI(send, callCustomAI(AIConfig(TRUE, "https://ai.example/api"),
                                                result))
  /\ UNCHANGED <<chatMessages, inputValue, isTyping, aiConfig>>
  /\ UNCHANGED <<httpVars, facadeVars, lateVars>>

\* the typing delay ends: the AI message is appended and the finally block
\* clears isTyping
DelayEnds ==
  /\ send.pc = "delay"
  /\ chatMessages' = Append(chatMessages, Message("ai", send.aiResponse, send.n))
  /\ isTyping' = FALSE
  /\ send' = [send EXCEPT !.pc = "done"]
  /\ UNCHANGED <<inputValue, aiConfig>>
  /\ UNCHANGED <<httpVars, facadeVars, lateVars>>

\* handleConfigUpdate, from the settings dialog
HandleConfigUpdate ==
  /\ widget = "configurable"
  /\ Cardinality({i \in 1..Len(chatMessages) : chatMessages[i].content = "config"}) < MaxSends
  /\ \E newConfig \in ConfigValues :
       /\ aiConfig' = newConfig
       /\ chatMessages' =
            IF newConfig.enabled THEN Append(chatMessages, Message("ai", "config", 0))
            ELSE chatMessages
  /\ UNCHANGED <<inputValue, isTyping, send>>
  /\ UNCHANGED <<httpVars, facadeVars, lateVars>>

(***************************************************************************)
(* The simple chat widget (client/components/AIChatWidget.tsx): the same   *)
(* React state, no configuration, and a timer in place of the awaits.      *)
(***************************************************************************)
\* the timer's callback appending the AI message but leaving isTyping set
SimpleTimeout_keepsTyping ==
  /\ send.pc = "timer"
  /\ chatMessages' = Append(chatMessages, Message("ai", send.aiResponse, send.n))
  /\ send' = [send EXCEPT !.pc = "done"]
  /\ UNCHANGED <<inputValue, isTyping, aiConfig>>
  /\ UNCHANGED <<httpVars, facadeVars, lateVars>>

\* the callback of setTimeout: the AI message is appended, isTyping cleared
SimpleTimeout ==
  /\ send.pc = "timer"
  /\ chatMessages' = Append(chatMessages, Message("ai", send.aiResponse, send.n))
  /\ isTyping' = FALSE
  /\ send' = [send EXCEPT !.pc = "done"]
  /\ UNCHANGED <<inputValue, aiConfig>>
  /\ UNCHANGED <<httpVars, facadeVars, lateVars>>

\* handleSendMessage of the simple widget, which ends by setting the timer
SimpleSendMessage ==
  /\ widget = "simple"
  /\ ~isTyping
  /\ send.n < MaxSends
  /\ IF trim(inputValue) = <<>>
       THEN /\ send' = [NoSend EXCEPT !.pc = "returned", !.n = send.n + 1]
            /\ UNCHANGED <<chatMessages, inputValue, isTyping>>
       ELSE /\ chatMessages' = Append(chatMessages, Message("user", "input", send.n + 1))
            /\ inputValue' = <<>>
            /\ isTyping' = TRUE
            /\ send' = [NoSend EXCEPT !.pc = "timer", !.n = send.n + 1,
                                      !.aiResponse = "generated"]
  /\ UNCHANGED aiConfig
  /\ UNCHANGED <<httpVars, facadeVars, lateVars>>

(***************************************************************************)
(* Actions: one per handler, serving one request from start to end, and    *)
(* the client taking the response.                                         *)
(***************************************************************************)
(***************************************************************************)
(* client/lib/highlight.ts: the lazily initialised telemetry client and    *)
(* the tracking functions that use it.                                     *)
(***************************************************************************)
Callers == 1..MaxCallers

\* how the dynamic import of @highlight-run/react can end
ImportResults == {"module with H", "module without init", "import rejects"}

\* initializeHighlight after its await: the object it returns and whether it
\* has run H.init and H.identify
initializeHighlight(result) ==
  IF result = "module with H"
    THEN [instance |-> "H", initialised |-> TRUE]
    ELSE [instance |-> "consoleFallback", initialised |-> FALSE]

NoTracking == [pc |-> "idle", calls |-> 0, H |-> Absent, threw |-> FALSE]

TelemetryInit ==
  /\ highlightInstance = Absent
  /\ inits = 0
  /\ tracking = [c \in Callers |-> NoTracking]

\* a tracking function up to the first await of getHighlightInstance
TrackStarts(c) ==
  /\ tracking[c].pc = "idle"
  /\ tracking[c].calls < MaxCalls
  /\ tracking' =
       [tracking EXCEPT ![c] =
          IF highlightInstance = Absent
            THEN [@ EXCEPT !.pc = "initializing", !.calls = @ + 1, !.H = Absent]
            ELSE [@ EXCEPT !.pc = "instance", !.calls = @ + 1, !.H = highlightInstance]]
  /\ UNCHANGED <<highlightInstance, inits>>
  /\ UNCHANGED <<httpVars, facadeVars, widgetVars, widget, profileVars, statusVars, timerVars>>

\* the import of a caller's initializeHighlight ends, with the module every
\* import of the page gets; getHighlightInstance assigns what it returned and
\* returns the module variable
ImportEnds(c) ==
  /\ tracking[c].pc = "initializing"
  /\ \E result \in ImportResults :
       LET made == initializeHighlight(result)
       IN /\ highlightInstance # Absent => made.instance = highlightInstance
          /\ highlightInstance' = made.instance
          /\ inits' = IF made.initialised THEN inits + 1 ELSE inits
          /\ tracking' = [tracking EXCEPT ![c].pc = "instance", ![c].H = made.instance]
  /\ UNCHANGED <<httpVars, facadeVars, widgetVars, widget, profileVars, statusVars, timerVars>>

\* the rest of the tracking function: the call on the instance, inside the
\* try whose catch only warns
TrackEnds(c) ==
  /\ tracking[c].pc = "instance"
  /\ \E throws \in BOOLEAN :
       LET caught == throws
       IN tracking' = [tracking EXCEPT ![c].pc = "idle", ![c].threw = throws /\ ~caught]
  /\ UNCHANGED <<highlightInstance, inits>>
  /\ UNCHANGED <<httpVars, facadeVars, widgetVars, widget, profileVars, statusVars, timerVars>>

NextTelemetry == \E c \in Callers : TrackStarts(c) \/ ImportEnds(c) \/ TrackEnds(c)

(***************************************************************************)
(* unnamed/part_000: user_profiles and the trigger update_user_stats on    *)
(* search_experiments and neural_architectures. A row keeps its id, its    *)
(* user_id (NoUser: NULL) and, for an architecture, top1_accuracy (0: NULL).*)
(***************************************************************************)
Users == {"u1", "u2"}

NoUser == "NULL"

Accuracies == {0, 70, 90}

OwnedRow(id, user_id, top1_accuracy) ==
  [id |-> id, user_id |-> user_id, top1_accuracy |-> top1_accuracy]

NoRow == OwnedRow(0, NoUser, 0)

\* the defaults of the columns of a new profile
NewProfile == [total_experiments |-> 0, total_architectures |-> 0, best_accuracy |-> 0]

COALESCE(a, b) == IF a # NoUser THEN a ELSE b

\* SELECT COUNT(*) FROM rows WHERE user_id = u
CountOf(rows, u) == Cardinality({r \in rows : u # NoUser /\ r.user_id = u})

\* SELECT MAX(top1_accuracy) FROM rows WHERE user_id = u
MaxAccuracyOf(rows, u) ==
  LET found == {r.top1_accuracy : r \in {x \in rows : u # NoUser /\ x.user_id = u}} \ {0}
  IN IF found = {} THEN 0 ELSE CHOOSE a \in found : \A b \in found : b <= a

\* update_user_stats, run after the statement has changed the row
update_user_stats(profiles, experiments, architectures, new, old) ==
  LET u == COALESCE(new.user_id, old.user_id)
  IN [p \in DOMAIN profiles |->
        IF p = u
          THEN [total_experiments |-> CountOf(experiments, u),
                total_architectures |-> CountOf(architectures, u),
                best_accuracy |-> MaxAccuracyOf(architectures, u)]
          ELSE profiles[p]]

ProfilesInit ==
  /\ user_profiles = [u \in Users |-> NewProfile]
  /\ owned_experiments = {}
  /\ owned_architectures = {}

OwnedIds == 1..MaxOwnedRows

\* INSERT INTO search_experiments
InsertExperimentRow ==
  /\ \E id \in OwnedIds, u \in Users \cup {NoUser} :
       LET new == OwnedRow(id, u, 0)
       IN /\ id \notin {r.id : r \in owned_experiments}
          /\ owned_experiments' = owned_experiments \cup {new}
          /\ user_profiles' = update_user_stats(user_profiles, owned_experiments',
                                                owned_architectures, new, NoRow)
  /\ UNCHANGED owned_architectures
  /\ UNCHANGED <<httpVars, facadeVars, widgetVars, widget, telemetryVars, statusVars, timerVars>>

\* UPDATE search_experiments SET user_id = u WHERE id = old.id
UpdateExperimentRow ==
  /\ \E old \in owned_experiments, u \in Users \cup {NoUser} :
       LET new == [old EXCEPT !.user_id = u]
       IN /\ owned_experiments' = (owned_experiments \ {old}) \cup {new}
          /\ user_profiles' = update_user_stats(user_profiles, owned_experiments',
                                                owned_architectures, new, old)
  /\ UNCHANGED owned_architectures
  /\ UNCHANGED <<httpVars, facadeVars, widgetVars, widget, telemetryVars, statusVars, timerVars>>

\* DELETE FROM search_experiments WHERE id = old.id
DeleteExperimentRow ==
  /\ \E old \in owned_experiments :
       /\ owned_experiments' = owned_experiments \ {old}
       /\ user_profiles' = update_user_stats(user_profiles, owned_experiments',
                                             owned_architectures, NoRow, old)
  /\ UNCHANGED owned_architectures
  /\ UNCHANGED <<httpVars, facadeVars, widgetVars, widget, telemetryVars, statusVars, timerVars>>

\* INSERT INTO neural_architectures
InsertArchitectureRow ==
  /\ \E id \in OwnedIds, u \in Users \cup {NoUser}, a \in Accuracies :
       LET new == OwnedRow(id, u, a)
       IN /\ id \notin {r.id : r \in owned_architectures}
          /\ owned_architectures' = owned_architectures \cup {new}
          /\ user_profiles' = update_user_stats(user_profiles, owned_experiments,
                                                owned_architectures', new, NoRow)
  /\ UNCHANGED owned_experiments
  /\ UNCHANGED <<httpVars, facadeVars, widgetVars, widget, telemetryVars, statusVars, timerVars>>

\* UPDATE neural_architectures SET user_id = u, top1_accuracy = a WHERE id = old.id
UpdateArchitectureRow ==
  /\ \E old \in owned_architectures, u \in Users \cup {NoUser}, a \in Accuracies :
       LET new == [old EXCEPT !.user_id = u, !.top1_accuracy = a]
       IN /\ owned_architectures' = (owned_architectures \ {old}) \cup {new}
          /\ user_profiles' = update_user_stats(user_profiles, owned_experiments,
                                                owned_architectures', new, old)
  /\ UNCHANGED owned_experiments
  /\ UNCHANGED <<httpVars, facadeVars, widgetVars, widget, telemetryVars, statusVars, timerVars>>

\* DELETE FROM neural_architectures WHERE id = old.id
DeleteArchitectureRow ==
  /\ \E old \in owned_architectures :
       /\ owned_architectures' = owned_architectures \ {old}
       /\ user_profiles' = update_user_stats(user_profiles, owned_experiments,
                                             owned_architectures', NoRow, old)
  /\ UNCHANGED owned_experiments
  /\ UNCHANGED <<httpVars, facadeVars, widgetVars, widget, telemetryVars, statusVars, timerVars>>

NextProfiles ==
  \/ InsertExperimentRow
  \/ UpdateExperimentRow
  \/ DeleteExperimentRow
  \/ InsertArchitectureRow
  \/ UpdateArchitectureRow
  \/ DeleteArchitectureRow

(***************************************************************************)
(* client/components/DatabaseStatus.tsx: testDatabaseOperations, one step  *)
(* per await. test.before keeps the rows the table had when it started.    *)
(***************************************************************************)
testExperiment == [NoExperiment EXCEPT !.name = "Test Connection"]

NoTest == [pc |-> "idle", before |-> {}, id |-> Absent, error |-> Absent]

StatusInit ==
  /\ testing = FALSE
  /\ test = NoTest

\* the button, disabled unless connected and while testing: setTesting(true)
\* and the call of createExperiment
TestStarts ==
  /\ ~testing
  /\ test.pc = "idle"
  /\ FacadeIdle
  /\ supabase = "client"
  /\ Cardinality(search_experiments) < MaxExperiments
  /\ testing' = TRUE
  /\ test' = [NoTest EXCEPT !.pc = "creating", !.before = search_experiments]
  /\ UNCHANGED facadeVars
  /\ UNCHANGED <<httpVars, widgetVars, widget, telemetryVars, profileVars, timerVars>>

\* createExperiment ends: with the row, or by throwing into the catch and
\* the finally block
TestCreateEnds ==
  /\ test.pc = "creating"
  /\ \E fails \in BOOLEAN, id \in ExperimentIds \ {r.id : r \in search_experiments} :
       LET r == createExperiment(supabase, search_experiments, testExperiment, id, 1, fails)
       IN /\ search_experiments' = r.table
          /\ IF r.outcome.kind = "threw"
               THEN /\ test' = [test EXCEPT !.pc = "done", !.error = r.outcome.error]
                    /\ testing' = FALSE
               ELSE /\ test' = [test EXCEPT !.pc = "deleting", !.id = r.outcome.rows[1].id]
                    /\ testing' = TRUE
  /\ UNCHANGED <<supabase, neural_architectures, search_progress, ai_conversations, call,
                 outcome, queries>>
  /\ UNCHANGED <<httpVars, widgetVars, widget, telemetryVars, profileVars, timerVars>>

\* the delete ends; its { error } is not looked at
TestDeleteEnds ==
  /\ test.pc = "deleting"
  /\ \E fails \in BOOLEAN :
       LET t == IF fails
                  THEN deleteExperimentRows(search_experiments, neural_architectures,
                                            search_progress, ai_conversations, Absent)
                  ELSE deleteExperimentRows(search_experiments, neural_architectures,
                                            search_progress, ai_conversations, test.id)
       IN /\ search_experiments' = t.experiments
          /\ neural_architectures' = t.architectures
          /\ search_progress' = t.progress
          /\ ai_conversations' = t.conversations
  /\ test' = [test EXCEPT !.pc = "refreshing"]
  /\ UNCHANGED <<supabase, call, outcome, queries, testing>>
  /\ UNCHANGED <<httpVars, widgetVars, widget, telemetryVars, profileVars, timerVars>>

\* checkConnection ends, having caught its own errors, and the finally block
\* runs
TestRefreshEnds ==
  /\ test.pc = "refreshing"
  /\ test' = [test EXCEPT !.pc = "done"]
  /\ testing' = FALSE
  /\ UNCHANGED facadeVars
  /\ UNCHANGED <<httpVars, widgetVars, widget, telemetryVars, profileVars, timerVars>>

\* the rest of the page uses the facade before the button is pressed
BeforeTest(A) == test.pc = "idle" /\ A

NextStatus ==
  \/ TestStarts
  \/ TestCreateEnds
  \/ TestDeleteEnds
  \/ TestRefreshEnds
  \/ BeforeTest(CreateExperiment(ExperimentPayloads, {1}))
  \/ BeforeTest(DeleteExperiment)
  \/ BeforeTest(Settle)

(***************************************************************************)
(* client/hooks/useNASPerformanceMonitoring.ts: the operationTimers map,   *)
(* a function from the ids it holds to their start times, and for every id *)
(* where its operation is and how many durations were reported for it.     *)
(***************************************************************************)
\* the ids measureOperation generates, one per call, and an id a component
\* passes to startOperation and endOperation itself
MeasureIds == {"m" \o ToString(i) : i \in 1..MaxMeasured}

DirectIds == {"d1"}

\* the values of performance.now(), from the time origin on
Clock == 0..MaxClock

NoOperation == [pc |-> "idle", reports |-> 0, returned |-> Undefined]

TimersInit ==
  /\ operationTimers = [id \in {} |-> 0]
  /\ measured = [id \in MeasureIds \cup DirectIds |-> NoOperation]

\* operationTimers.current.set(operationId, startTime)
set(timers, id, startTime) ==
  [k \in DOMAIN timers \cup {id} |-> IF k = id THEN startTime ELSE timers[k]]

\* operationTimers.current.get(operationId)
get(timers, id) == IF id \in DOMAIN timers THEN Number(timers[id]) ELSE Undefined

\* operationTimers.current.delete(operationId)
delete(timers, id) == [k \in DOMAIN timers \ {id} |-> timers[k]]

\* !startTime
falsy(v) == v.t = "undefined" \/ v.n = 0

\* endOperation: the map afterwards, whether a duration was reported and
\* what is returned
endOperation(timers, id, now) ==
  LET startTime == get(timers, id)
  IN IF falsy(startTime)
       THEN [timers |-> timers, reported |-> FALSE, returned |-> Undefined]
       ELSE [timers |-> delete(timers, id), reported |-> TRUE,
             returned |-> Number(now - startTime.n)]

\* the later values of the clock
From(timers, id) == {now \in Clock : id \in DOMAIN timers => now >= timers[id]}

\* measureOperation up to its await
MeasureStarts(id) ==
  /\ id \in MeasureIds
  /\ measured[id].pc = "idle"
  /\ \E now \in Clock :
       operationTimers' = set(operationTimers, id, now)
  /\ measured' = [measured EXCEPT ![id].pc = "running"]
  /\ UNCHANGED <<httpVars, facadeVars, widgetVars, widget, telemetryVars, profileVars, statusVars>>

\* the wrapped operation resolves or rejects, and measureOperation calls
\* endOperation and returns the result or throws the error again
MeasureEnds(id) ==
  /\ id \in MeasureIds
  /\ measured[id].pc = "running"
  /\ \E rejects \in BOOLEAN, now \in From(operationTimers, id) :
       LET r == endOperation(operationTimers, id, now)
       IN /\ operationTimers' = r.timers
          /\ measured' =
               [measured EXCEPT ![id].pc = IF rejects THEN "rejected" ELSE "resolved",
                                ![id].reports = IF r.reported THEN @ + 1 ELSE @,
                                ![id].returned = r.returned]
  /\ UNCHANGED <<httpVars, facadeVars, widgetVars, widget, telemetryVars, profileVars, statusVars>>

\* a component calls startOperation
StartOperation(id) ==
  /\ id \in DirectIds
  /\ measured[id].pc = "idle"
  /\ \E now \in Clock :
       operationTimers' = set(operationTimers, id, now)
  /\ measured' = [measured EXCEPT ![id].pc = "running"]
  /\ UNCHANGED <<httpVars, facadeVars, widgetVars, widget, telemetryVars, profileVars, statusVars>>

\* a component calls endOperation, for an operation it started or not
EndOperation(id) ==
  /\ id \in DirectIds
  /\ \E now \in From(operationTimers, id) :
       LET r == endOperation(operationTimers, id, now)
       IN /\ operationTimers' = r.timers
          /\ measured' =
               [measured EXCEPT ![id].pc = IF @ = "running" THEN "ended" ELSE @,
                                ![id].reports = IF r.reported THEN @ + 1 ELSE @,
                                ![id].returned = r.returned]
  /\ UNCHANGED <<httpVars, facadeVars, widgetVars, widget, telemetryVars, profileVars, statusVars>>

NextTimers ==
  \E id \in MeasureIds \cup DirectIds :
    \/ MeasureStarts(id)
    \/ MeasureEnds(id)
    \/ StartOperation(id)
    \/ EndOperation(id)

\* the state of the components a specification leaves alone
LateInit ==
  /\ widget = "configurable"
  /\ TelemetryInit
  /\ ProfilesInit
  /\ StatusInit
  /\ TimersInit

HttpInit ==
  /\ pc = "idle"
  /\ req = NoReq
  /\ res = NoRes
  /\ sessions = [i \in TrackedIds |-> "unknown"]

Init ==
  /\ HttpInit
  /\ LateInit
  /\ FacadeInit({"client"})
  /\ WidgetInit
  /\ aiConfig = defaultConfig

Serve(r, response) ==
  /\ req' = r
  /\ res' = response
  /\ pc' = IF response.status = 0 THEN "serving" ELSE "responded"
  /\ UNCHANGED <<facadeVars, widgetVars, lateVars>>

ExpressChat ==
  /\ pc = "idle"
  /\ \E r \in ExpressChatRequests :
      /\ Serve(r, handleChat(r.messages))
      /\ UNCHANGED sessions

Chat ==
  /\ pc = "idle"
  /\ \E r \in ChatRequests :
      /\ Serve(r, ChatHandler(r.method, r.messages))
      /\ UNCHANGED sessions

Enhanced ==
  /\ pc = "idle"
  /\ \E r \in EnhancedRequests :
      /\ Serve(r, EnhancedHandler(r.method, r.messages, r.currentExperiment))
      /\ UNCHANGED sessions

Index ==
  /\ pc = "idle"
  /\ \E r \in IndexRequests :
      /\ Serve(r, IndexHandler(r.method))
      /\ UNCHANGED sessions

NasAi ==
  /\ pc = "idle"
  /\ \E r \in NasAiRequests :
      /\ Serve(r, NasAiHandler(r.method, r.operation, r.architecture, r.dataset,
                               r.constraints, r.currentBest))
      /\ UNCHANGED sessions

Optimization ==
  /\ pc = "idle"
  /\ \E r \in OptimizationRequests :
      \E randoms \in [1..randomsOf(r) -> RandomScores] :
        LET response == OptimizationHandler(r, randoms) IN
        /\ Serve(r, response)
        /\ sessions' = record(sessions, r, response)

ExternalAi ==
  /\ pc = "idle"
  /\ \E r \in ExternalAiRequests :
      /\ Serve(r, ExternalAiHandler(r.method, r.service, r.task, r.input))
      /\ UNCHANGED sessions

Debug ==
  /\ pc = "idle"
  /\ \E r \in DebugRequests :
      /\ Serve(r, DebugLogger(r.method, r.path, r.body))
      /\ UNCHANGED sessions

\* the client receives the response
Receive ==
  /\ pc = "responded"
  /\ pc' = "idle"
  /\ req' = NoReq
  /\ res' = NoRes
  /\ UNCHANGED sessions
  /\ UNCHANGED <<facadeVars, widgetVars, lateVars>>

Next ==
  \/ ExpressChat
  \/ Chat
  \/ Enhanced
  \/ Index
  \/ NasAi
  \/ Optimization
  \/ ExternalAi
  \/ Debug
  \/ Receive

Spec == Init /\ [][Next]_vars

(***************************************************************************)
(* The facade over the experiments table.                                  *)
(***************************************************************************)
NextExperiments ==
  \/ CreateExperiment(ExperimentPayloads, Instants)
  \/ GetExperiments
  \/ GetExperiment
  \/ UpdateExperiment(ExperimentPartials, Instants)
  \/ Settle

SpecExperiments == Init /\ [][NextExperiments]_vars

(***************************************************************************)
(* The facade over the two logs, with the update of an experiment.         *)
(***************************************************************************)
NextLogs ==
  \/ RecordProgress(ProgressPayloads)
  \/ GetProgress
  \/ SaveConversation(ConversationPayloads, Instants)
  \/ GetConversations
  \/ UpdateExperiment({[NoExperiment EXCEPT !.id = "e1"]}, {1})
  \/ Settle

SpecLogs == Init /\ [][NextLogs]_vars

(***************************************************************************)
(* Every method of the facade, over each value the module can export as    *)
(* the client.                                                             *)
(***************************************************************************)
InitFacade ==
  /\ HttpInit
  /\ LateInit
  /\ FacadeInit(ClientValues)
  /\ WidgetInit
  /\ aiConfig = defaultConfig

NextFacade ==
  \/ CreateExperiment(MinimalExperiments, {1})
  \/ GetExperiments
  \/ GetExperiment
  \/ UpdateExperiment(MinimalPartials, {1})
  \/ CreateArchitecture(ArchitecturePayloads)
  \/ GetArchitectures
  \/ GetTopArchitectures
  \/ GetArchitecture
  \/ GetExperimentSummary
  \/ RecordProgress(MinimalProgress)
  \/ GetProgress
  \/ SaveConversation(MinimalConversations, {1})
  \/ GetConversations
  \/ GetGlobalStats
  \/ RunQuery
  \/ ResolveQuery
  \/ ReturnGlobalStats
  \/ ConcurrentInsert
  \/ Settle

SpecFacade == InitFacade /\ [][NextFacade]_vars

(***************************************************************************)
(* The chat widget.                                                        *)
(***************************************************************************)
InitWidget ==
  /\ HttpInit
  /\ LateInit
  /\ FacadeInit({"client"})
  /\ WidgetInit

NextWidget ==
  \/ TypeInput
  \/ HandleSendMessage
  \/ CustomAIEnds
  \/ DelayEnds
  \/ HandleConfigUpdate

SpecWidget == InitWidget /\ [][NextWidget]_vars

(***************************************************************************)
(* Either chat widget, with the timers firing and the requests ending.     *)
(***************************************************************************)
InitWidgets ==
  /\ HttpInit
  /\ FacadeInit({"client"})
  /\ WidgetInit
  /\ widget \in {"configurable", "simple"}
  /\ widget = "simple" => aiConfig = defaultConfig
  /\ TelemetryInit
  /\ ProfilesInit
  /\ StatusInit
  /\ TimersInit

NextWidgets ==
  \/ TypeInput
  \/ HandleSendMessage
  \/ CustomAIEnds
  \/ DelayEnds
  \/ HandleConfigUpdate
  \/ SimpleSendMessage
  \/ SimpleTimeout

\* setTimeout callbacks run, and the browser ends every fetch by resolving or
\* rejecting it
SpecWidgets ==
  /\ InitWidgets
  /\ [][NextWidgets]_vars
  /\ WF_vars(CustomAIEnds)
  /\ WF_vars(DelayEnds)
  /\ WF_vars(SimpleTimeout)

(***************************************************************************)
(* The tracking functions of client/lib/highlight.ts, called from several  *)
(* places of the page.                                                     *)
(***************************************************************************)
SpecTelemetry == Init /\ [][NextTelemetry]_vars

(***************************************************************************)
(* The statements that fire the triggers of unnamed/part_000.              *)
(***************************************************************************)
SpecProfiles == Init /\ [][NextProfiles]_vars

(***************************************************************************)
(* The Test Connection button of DatabaseStatus.                           *)
(***************************************************************************)
SpecStatus == Init /\ [][NextStatus]_vars

(***************************************************************************)
(* The operations a component measures with useNASPerformanceMonitoring.   *)
(***************************************************************************)
SpecTimers == Init /\ [][NextTimers]_vars

(***************************************************************************)
(* The tables under inserts and deletions of experiments.                  *)
(***************************************************************************)
NextSchema ==
  \/ CreateExperiment(MinimalExperiments, {1})
  \/ CreateArchitecture(LinkedArchitectures)
  \/ RecordProgress(LinkedProgress)
  \/ SaveConversation(LinkedConversations, {1})
  \/ DeleteExperiment
  \/ Settle

SpecSchema == Init /\ [][NextSchema]_vars

(***************************************************************************)
(* The experiments table under creations and updates that name an owner.   *)
(***************************************************************************)
OwnerPartials ==
  {[NoExperiment EXCEPT !.name = "b"], [NoExperiment EXCEPT !.created_by = "Mallory"],
   [NoExperiment EXCEPT !.created_by = Owner]}

NextOwner ==
  \/ CreateExperiment(ExperimentPayloads, {1})
  \/ UpdateExperiment(OwnerPartials, {1})
  \/ GetExperiments
  \/ Settle

SpecOwner == Init /\ [][NextOwner]_vars

(***************************************************************************)
(* Properties                                                              *)
(***************************************************************************)
Served(name) == pc = "responded" /\ req.handler = name

ChatHandlers == {"chat", "express-chat", "shaurya-ai-enhanced"}

ChatPost == pc = "responded" /\ req.handler \in ChatHandlers /\ req.method = "POST"

\* `messages` is missing, not an array, empty, or ends with a message whose
\* role is not "user"
InvalidMessages(m) ==
  \/ m.t # "array"
  \/ m.items = <<>>
  \/ m.items[Len(m.items)].role # "user"

NoReply(body) == body.content = Absent /\ body.text = Absent /\ body.choice = Absent

C2_SameReplyUnderThreeKeys ==
  (ChatPost /\ res.status = 200) =>
    /\ res.body.content # Absent
    /\ res.body.text = res.body.content
    /\ res.body.choice = res.body.content

C2_Witness ==
  /\ Served("shaurya-ai-enhanced")
  /\ res.status = 200
  /\ res.body.content = "**Hardware-Aware Optimization - Shaurya AI**"
  /\ res.body.choice = res.body.content

\* the methods a handler accepts for a request
Accepted(r) ==
  CASE r.handler = "optimization" -> {"POST", "GET", "PUT", "DELETE"}
    [] r.handler = "index" -> {"GET"}
    [] r.handler = "debug-logger" ->
         IF r.path \in PostPaths THEN {"POST"}
         ELSE IF r.path = "/api/debug/info" THEN {"GET"}
         ELSE Methods
    [] OTHER -> {"POST"}

\* C3: every handler answers 405 to a request whose method it does not
\* accept (OPTIONS aside).
C3_DisallowedMethodGets405 ==
  (pc = "responded" /\ req.method \notin Accepted(req) \cup {"OPTIONS"}) =>
    res.status = 405

\* the body lacks a field the selected operation needs
LacksRequiredField(r) ==
  \/ /\ r.handler = "nas-ai" /\ r.method = "POST"
     /\ \/ r.operation = "undefined"
        \/ r.operation = "evaluate" /\ r.architecture.t = "undefined"
        \/ r.operation = "compare" /\ Len(r.currentBest.items) < 2
  \/ /\ r.handler = "optimization" /\ r.method = "POST"
     /\ \/ r.algorithm = "undefined"
        \/ r.searchSpace = "undefined"
        \/ r.objectives = "undefined"
        \/ r.budget.t = "undefined"
  \/ /\ r.handler = "optimization" /\ r.method \in {"GET", "PUT", "DELETE"}
     /\ r.searchId = "undefined"
  \/ /\ r.handler = "optimization" /\ r.method = "PUT"
     /\ r.action = "undefined"
  \/ /\ r.handler = "external-ai" /\ r.method = "POST"
     /\ \/ r.service = "undefined"
        \/ r.task = "undefined"
        \/ r.input = "undefined"

\* C4: a request whose body lacks a field the selected operation needs is
\* answered with HTTP 400.
C4_MissingFieldGets400 ==
  (pc = "responded" /\ LacksRequiredField(req)) => res.status = 400

\* the request names a supported operation, algorithm or service
NamesSupported(r) ==
  \/ /\ r.handler = "nas-ai" /\ r.method = "POST"
     /\ r.operation \in {"evaluate", "optimize", "suggest", "compare"}
  \/ /\ r.handler = "optimization" /\ r.method = "POST"
     /\ r.algorithm \in {"evolutionary", "bayesian", "gradient", "reinforcement", "random"}
  \/ /\ r.handler = "optimization" /\ r.method \in {"GET", "PUT", "DELETE"}
  \/ /\ r.handler = "external-ai" /\ r.method = "POST"
     /\ r.service \in {"openai", "anthropic", "cohere", "huggingface", "replicate"}

\* C5: a request with every checked field present and a supported
\* operation, algorithm or service gets a success response.
C5_CompleteRequestSucceeds ==
  (pc = "responded" /\ NamesSupported(req) /\ ~LacksRequiredField(req)) =>
    res.status = 200 /\ res.body.success = "true"

\* the handlers that write the CORS headers themselves (the Express route
\* leaves them to the cors middleware)
CorsHandlers ==
  {"chat", "shaurya-ai-enhanced", "index", "nas-ai", "optimization", "external-ai",
   "debug-logger"}

CorsServed == pc = "responded" /\ req.handler \in CorsHandlers

\* C6 as stated: OPTIONS is answered 200 and every response carries the same
\* three CORS header values as the responses of /api/chat.
C6_SameCorsEverywhere ==
  CorsServed =>
    /\ req.method = "OPTIONS" => res.status = 200
    /\ res.cors = ChatHandler("OPTIONS", NoMessages).cors

\* C6, amended: OPTIONS is answered 200 with no body before any dispatch or
\* validation, and every response carries Access-Control-Allow-Origin "*"
\* and Access-Control-Allow-Headers "Content-Type, Authorization"; the
\* allowed methods are "GET, POST, OPTIONS" in /api/external-ai and the
\* debug logger and "GET, POST, PUT, DELETE, OPTIONS" in the other handlers.
C6_CorsPerHandler ==
  CorsServed =>
    /\ req.method = "OPTIONS" => res.status = 200 /\ res.body = NoBody
    /\ res.cors.origin = "*"
    /\ res.cors.headers = "Content-Type, Authorization"
    /\ res.cors.methods =
         IF req.handler \in {"external-ai", "debug-logger"}
           THEN "GET, POST, OPTIONS"
           ELSE "GET, POST, PUT, DELETE, OPTIONS"

C6_Witness ==
  /\ Served("debug-logger")
  /\ req.method = "PUT"
  /\ res.status = 404
  /\ res.cors.origin = "*"
  /\ res.cors.methods = "GET, POST, OPTIONS"

\* a start request that passes validation and names a supported algorithm,
\* with an integer budget.parallel >= 0
StartServed ==
  /\ Served("optimization")
  /\ req.method = "POST"
  /\ req.algorithm \in {"evolutionary", "bayesian", "gradient", "reinforcement", "random"}
  /\ ~LacksRequiredField(req)

\* C7 as stated: the response of such a start is "initialized" and carries
\* at most budget.parallel candidates.
C7_CandidatesWithinParallel ==
  (StartServed /\ ~req.budget.parallel.nan /\ req.budget.parallel.n >= 0) =>
    /\ res.body.status = "initialized"
    /\ Len(res.body.candidates) <= req.budget.parallel.n

\* C7, amended: the response of such a start is "initialized" for every
\* value of parallel and every seed list, and for an integer parallel >= 0
\* it carries at most 4 * parallel candidates.
C7_CandidatesWithinFourTimesParallel ==
  StartServed =>
    /\ res.body.status = "initialized"
    /\ res.body.hasCandidates
    /\ (~req.budget.parallel.nan /\ req.budget.parallel.n >= 0) =>
         Len(res.body.candidates) <= 4 * req.budget.parallel.n

C7_Witness ==
  /\ StartServed
  /\ req.algorithm = "evolutionary"
  /\ req.budget.parallel = Num(1)
  /\ Len(req.currentBest.items) = MaxSeeds
  /\ Len(res.body.candidates) = 4
  /\ res.body.candidates[1].seed

\* C8: the status, algorithm and searchId of a GET, PUT or DELETE response
\* depend on that request alone, whatever earlier requests did to the
\* search id: GET reports "running", a PUT with a listed action "running",
\* DELETE "completed", each with the given searchId.
C8_StatusFromRequestAlone ==
  (Served("optimization") /\ req.searchId # "undefined") =>
    /\ req.method = "GET" =>
         /\ res.body.status = "running"
         /\ res.body.algorithm = "evolutionary"
         /\ res.body.searchId = req.searchId
    /\ (req.method = "PUT" /\ req.action \in actions) =>
         /\ res.body.status = "running"
         /\ res.body.algorithm = "evolutionary"
         /\ res.body.searchId = req.searchId
    /\ req.method = "DELETE" =>
         /\ res.body.status = "completed"
         /\ res.body.algorithm = "evolutionary"
         /\ res.body.searchId = req.searchId

C8_Witness ==
  /\ Served("optimization")
  /\ req.method = "GET"
  /\ req.searchId \in TrackedIds
  /\ sessions[req.searchId] = "stopped"
  /\ res.body.status = "running"

EvaluateServed ==
  /\ Served("nas-ai")
  /\ req.method = "POST"
  /\ req.operation = "evaluate"
  /\ req.architecture.t = "object"

\* the baseline of a dataset, in 1e-3
Baseline(dataset) ==
  CASE dataset = "cifar10" -> 850
    [] dataset = "cifar100" -> 600
    [] OTHER -> 700

\* C9: an evaluate request whose architecture has no layers is answered with
\* parameterCount 0 and the baseline accuracy of its dataset.
C9_EmptyLayersGiveBaseline ==
  (EvaluateServed /\ req.architecture.layers = <<>>) =>
    /\ res.body.hasMetrics
    /\ res.body.parameterCount = 0
    /\ res.body.estimatedAccuracy = Baseline(req.dataset)

C9_Witness ==
  /\ EvaluateServed
  /\ req.architecture.hasLayers
  /\ req.architecture.layers = <<>>
  /\ req.dataset = "custom"
  /\ res.body.estimatedAccuracy = 700

\* C10: the estimatedAccuracy of an evaluate response is
\* min(baseline + 0.2 * min(parameterCount / 1000000, 10) / 10, 0.98), to the
\* three decimals the response carries, and never exceeds 0.98.
C10_AccuracyFormula ==
  EvaluateServed =>
    /\ res.body.estimatedAccuracy =
         (Min(Baseline(req.dataset) * 100000 + 2 * Min(res.body.parameterCount, 10000000),
              98000000) + 50000) \div 100000
    /\ res.body.estimatedAccuracy <= 980

C10_Witness ==
  /\ EvaluateServed
  /\ req.dataset = "cifar10"
  /\ res.body.parameterCount > 6500000
  /\ res.body.estimatedAccuracy = 980

\* the response types in the order their patterns are tested
BucketOrder ==
  <<"optimization", "comparison", "performance", "hardware", "search", "design",
    "troubleshooting", "dataset">>

\* the pattern of the i-th bucket matches the lowercased prompt
BucketMatches(i, input) ==
  CASE i = 1 -> architectureOptimization(input)
    [] i = 2 -> modelComparison(input)
    [] i = 3 -> performanceAnalysis(input)
    [] i = 4 -> hardwareConstraints(input)
    [] i = 5 -> searchStrategy(input)
    [] i = 6 -> architectureDesign(input)
    [] i = 7 -> troubleshooting(input)
    [] i = 8 -> datasetQuestions(input)

EnhancedAnswered ==
  /\ Served("shaurya-ai-enhanced")
  /\ req.method = "POST"
  /\ res.status = 200

\* C11: the answer of /api/shaurya-ai-enhanced carries the text and the
\* insight of the first bucket, in the fixed order, whose pattern matches
\* the lowercased prompt, and the general text with no bucket insight when
\* no pattern matches; the only other insight is the experiment status the
\* request's context asks for.
C11_FirstMatchingBucketAnswers ==
  EnhancedAnswered =>
    LET items == req.messages.items
        input == toLowerCase(items[Len(items)].s)
        hits == {i \in 1..8 : BucketMatches(i, input)}
        type == IF hits = {} THEN "general"
                ELSE BucketOrder[CHOOSE i \in hits : \A j \in hits : i <= j]
    IN /\ res.body.text = responseTextOf(type, input, items)
       /\ res.body.insights =
            insightsOf(type) \o
              (IF req.currentExperiment THEN <<"Current Experiment Status">> ELSE <<>>)
       /\ type # "general" => Len(insightsOf(type)) = 1

\* a prompt that matches the comparison and the dataset pattern is answered
\* as a comparison
C11_Witness ==
  /\ EnhancedAnswered
  /\ req.messages.items[Len(req.messages.items)].s = TxtWhichDataset
  /\ modelComparison(TxtWhichDataset) /\ datasetQuestions(TxtWhichDataset)
  /\ res.body.text = "**Architecture Comparison Analysis - Shaurya AI**"
  /\ res.body.insights = <<"Multi-Objective Analysis">>

\* a POST to /api/chat (either implementation) whose conversation is one
\* user message with a string content
SingleUserMessage ==
  /\ ChatPost
  /\ req.handler \in {"chat", "express-chat"}
  /\ Len(req.messages.items) = 1
  /\ req.messages.items[1].t = "object"
  /\ req.messages.items[1].role = "user"
  /\ req.messages.items[1].content = "string"

\* C12: /api/chat answers the single user message "hello" with the greeting
\* and the single user message "help me optimize" with the text of the
\* performance/optimization branch.
C12_HelloGreetsOptimizeOptimizes ==
  SingleUserMessage =>
    /\ toLowerCase(req.messages.items[1].s) = toLowerCase(TxtHello) =>
         res.body.content = GreetingReply
    /\ req.messages.items[1].s = TxtHelpMeOptimize =>
         res.body.content = PerformanceReply

(***************************************************************************)
(* Properties of the facade.                                               *)
(***************************************************************************)
Finished(op) == call.op = op /\ outcome.kind # "none"

\* createExperiment has returned the row it created, and getExperiment is
\* called with the id of that row
Created == Finished("createExperiment") /\ outcome.kind = "returned"

ReadBack ==
  getExperiment(supabase, search_experiments, outcome.rows[1].id, FALSE).outcome

\* C13 as stated: createExperiment(p) followed by getExperiment of the
\* created id returns a row whose fields are those of p, except created_by,
\* which is the fixed owner.
C13_ReadBackEqualsPayload ==
  Created =>
    /\ ReadBack.kind = "returned"
    /\ ReadBack.rows[1].name = call.arg.name
    /\ call.arg.target_accuracy.t = "number" =>
         ReadBack.rows[1].target_accuracy = call.arg.target_accuracy
    /\ ReadBack.rows[1].created_by = Owner

\* C13, amended: the row read back has the name of p, created_by the fixed
\* owner whatever p says, target_accuracy the value of p rounded to two
\* decimals (the column is DECIMAL(5,2)), and the column defaults for the
\* fields p does not name.
C13_ReadBackEqualsStoredPayload ==
  Created =>
    /\ ReadBack.kind = "returned"
    /\ ReadBack.rows = outcome.rows
    /\ ReadBack.rows[1].name = call.arg.name
    /\ ReadBack.rows[1].created_by = Owner
    /\ IF call.arg.target_accuracy.t = "number"
         THEN /\ ReadBack.rows[1].target_accuracy.t = "number"
              /\ ReadBack.rows[1].target_accuracy.n % 10 = 0
              /\ ReadBack.rows[1].target_accuracy.n - call.arg.target_accuracy.n \in -5..5
         ELSE ReadBack.rows[1].target_accuracy = Null
    /\ ReadBack.rows[1].status = "pending"
    /\ ReadBack.rows[1].updated_at = Number(call.now)

C13_Witness ==
  /\ Created
  /\ call.arg.created_by = "Mallory"
  /\ call.arg.target_accuracy = Number(95456)
  /\ ReadBack.rows[1].created_by = Owner
  /\ ReadBack.rows[1].target_accuracy = Number(95460)

\* the step is a call of updateExperiment
UpdateStep == FacadeIdle /\ call'.op = "updateExperiment"

LogsUnchanged ==
  /\ search_progress' = search_progress
  /\ ai_conversations' = ai_conversations
  /\ neural_architectures' = neural_architectures

C15_UpdateOfMissingRowThrows ==
  [][(UpdateStep /\ ~\E r \in search_experiments : r.id = call'.id) =>
       /\ outcome'.kind = "threw"
       /\ outcome'.rows = <<>>
       /\ search_experiments' = search_experiments
       /\ LogsUnchanged]_vars

C15_Witness ==
  /\ Finished("updateExperiment")
  /\ call.id = "e-none"
  /\ ~call.fails
  /\ call.arg.name = "b"
  /\ outcome.kind = "threw"
  /\ outcome.error = "PGRST116"

\* the log is as before, or as before with one more row at its end
ProgressAppended ==
  \/ search_progress' = search_progress
  \/ /\ Len(search_progress') = Len(search_progress) + 1
     /\ SubSeq(search_progress', 1, Len(search_progress)) = search_progress

ConversationAppended ==
  \/ ai_conversations' = ai_conversations
  \/ /\ Len(ai_conversations') = Len(ai_conversations) + 1
     /\ SubSeq(ai_conversations', 1, Len(ai_conversations)) = ai_conversations

\* the sequence holds each row of the set once and no other row
ExactlyRows(q, S) ==
  /\ {q[i] : i \in 1..Len(q)} = S
  /\ Len(q) = Cardinality(S)

\* C16: no facade operation changes or removes a row of the progress log or
\* of the conversation log, a step adds at most one row at the end;
\* getProgress(e) returns exactly the rows of e, by non-decreasing
\* iteration, and getConversations(s) exactly the rows of s, by
\* non-decreasing creation time.
C16_LogsAppendOnlyAndReadInOrder ==
  /\ [][ProgressAppended /\ ConversationAppended]_vars
  /\ []((Finished("getProgress") /\ outcome.kind = "returned") =>
         /\ ExactlyRows(outcome.rows,
                        {r \in RowsOf(search_progress) : r.experiment_id = call.id})
         /\ \A i, j \in 1..Len(outcome.rows) :
              i < j => outcome.rows[i].iteration.n <= outcome.rows[j].iteration.n)
  /\ []((Finished("getConversations") /\ outcome.kind = "returned") =>
         /\ ExactlyRows(outcome.rows,
                        {r \in RowsOf(ai_conversations) : r.session_id = call.id})
         /\ \A i, j \in 1..Len(outcome.rows) :
              i < j => outcome.rows[i].created_at.n <= outcome.rows[j].created_at.n)

C16_Witness ==
  /\ Finished("getProgress")
  /\ outcome.kind = "returned"
  /\ Len(search_progress) = 2
  /\ search_progress[1].iteration = Number(2)
  /\ search_progress[2].iteration = Number(1)
  /\ outcome.rows = <<search_progress[2], search_progress[1]>>

\* getGlobalStats has returned and every count query was answered without
\* an error
StatsReturned ==
  /\ Finished("getGlobalStats")
  /\ outcome.kind = "returned"
  /\ \A i \in 1..3 : queries[i].error = Absent

\* C17: getGlobalStats returns three non-negative integers; in whatever
\* order its three count queries are answered and resolve, each is the
\* count of its own table (the count at the moment the query ran, when
\* another caller inserts meanwhile).
C17_StatsAreTheTableCounts ==
  StatsReturned =>
    /\ Len(outcome.totals) = 3
    /\ \A i \in 1..3 :
         /\ outcome.totals[i] \in Nat
         /\ outcome.totals[i] <= CountedRows(i)
         /\ ~call.interleaved => outcome.totals[i] = CountedRows(i)

C17_Witness ==
  /\ StatsReturned
  /\ ~call.interleaved
  /\ outcome.totals[1] = 2
  /\ outcome.totals[2] = 3
  /\ outcome.totals[3] = 1

\* C18: a facade operation whose request to the store fails ends with a
\* thrown error, getGlobalStats included when one of its count queries
\* fails.
C18_StoreFailureIsThrown ==
  (/\ supabase = "client"
   /\ outcome.kind # "none"
   /\ \/ call.fails
      \/ \E i \in 1..3 : queries[i].error # Absent)
    => outcome.kind = "threw"

\* C19: with the URL or the key absent every facade operation ends with
\* the error "Supabase not configured", never with another failure and
\* never with a value.
C19_StubSaysNotConfigured ==
  (supabase = "stub" /\ outcome.kind # "none")
    => outcome = Threw("Supabase not configured")

\* the AI messages that the current send appended
RepliesOfSend ==
  {i \in 1..Len(chatMessages) :
     chatMessages[i].sender = "ai" /\ chatMessages[i].by = send.n}

\* C20: a failure of the call to the AI endpoint never leaves
\* handleSendMessage as an exception; the send ends with exactly one AI
\* message, which carries the error text, and with the typing indicator
\* cleared.
C20_EndpointFailureBecomesOneMessage ==
  /\ send.pc # "escaped"
  /\ (send.pc = "done" /\ send.failure # Absent) =>
       /\ ~isTyping
       /\ Cardinality(RepliesOfSend) = 1
       /\ \A i \in RepliesOfSend :
            /\ i = Len(chatMessages) \/ chatMessages[i + 1].by # send.n
            /\ chatMessages[i].content = "AI service error"

C20_Witness ==
  /\ send.pc = "done"
  /\ send.failure = "Failed to fetch"
  /\ ~isTyping
  /\ chatMessages[Len(chatMessages)] = Message("ai", "AI service error", send.n)

\* the experiment ids in use
ExistingIds == {e.id : e \in search_experiments}

\* the step is a deletion that removes the experiment with that id
Deletes(id) ==
  /\ FacadeIdle
  /\ call'.op = "deleteExperiment"
  /\ call'.id = id
  /\ id \in ExistingIds
  /\ id \notin {e.id : e \in search_experiments'}

\* C21: after any sequence of inserts and deletions of experiments no row of
\* neural_architectures or search_progress points to an experiment that
\* does not exist; a deletion keeps every conversation, those linked to the
\* deleted experiment with the link cleared, the others as they were.
C21_DeletionCascades ==
  /\ [](\A r \in neural_architectures \cup RowsOf(search_progress) :
          r.experiment_id = Absent \/ r.experiment_id \in ExistingIds)
  /\ [][\A id \in IdValues :
          Deletes(id) =>
            /\ Len(ai_conversations') = Len(ai_conversations)
            /\ \A i \in 1..Len(ai_conversations) :
                 ai_conversations'[i] =
                   IF ai_conversations[i].experiment_id = id
                     THEN [ai_conversations[i] EXCEPT !.experiment_id = Absent]
                     ELSE ai_conversations[i]]_vars

C21_Witness ==
  /\ Finished("deleteExperiment")
  /\ call.id = "e0"
  /\ "e0" \notin ExistingIds
  /\ neural_architectures = {}
  /\ Len(ai_conversations) = 2
  /\ ai_conversations[1].experiment_id = Absent
  /\ ai_conversations[2].experiment_id = "e1"

\* C22: after any sequence of createExperiment and updateExperiment calls
\* every experiment row has created_by = "Shaurya Upadhyay".
C22_OwnerIsFixed == \A r \in search_experiments : r.created_by = Owner

\* C23: every successful evaluate response carries a number as score and as
\* efficiencyScore, also for an empty layer list and for layers that
\* contribute nothing.
C23_ScoreIsANumber ==
  (EvaluateServed /\ res.body.success = "true") =>
    /\ res.body.score.t = "number"
    /\ res.body.efficiencyScore.t = "number"

\* C24: every start request gets a response, whatever budget.parallel is
\* (generateInitialPopulation ends for every size a request can supply).
C24_EveryStartIsAnswered ==
  (pc # "idle" /\ req.handler = "optimization" /\ req.method = "POST") =>
    /\ pc = "responded"
    /\ res.status \in {200, 400, 500}

\* C25: a message that names a topic keyword ("architecture", "search") and
\* does not contain the words hello, hi or hey gets the answer of that
\* topic, not the greeting.
C25_TopicKeywordGetsTopicAnswer ==
  SingleUserMessage =>
    /\ req.messages.items[1].s = TxtArchitecture => res.body.content = ArchitectureReply
    /\ req.messages.items[1].s = TxtSearch => res.body.content = SearchReply

(***************************************************************************)
(* Properties of the chat widgets.                                         *)
(***************************************************************************)
\* the places of the messages send number n appended as sender
PlacesOf(sender, n) ==
  {i \in 1..Len(chatMessages) :
     chatMessages[i].sender = sender /\ chatMessages[i].by = n}

\* the messages appended by sends, in the order of the list
RECURSIVE conversation(_)
conversation(messages) ==
  IF messages = <<>> THEN <<>>
  ELSE IF Head(messages).by = 0 THEN conversation(Tail(messages))
  ELSE <<Head(messages)>> \o conversation(Tail(messages))

Alternates(messages) ==
  \A i \in 1..Len(messages) :
    /\ messages[i].sender = (IF i % 2 = 1 THEN "user" ELSE "ai")
    /\ i % 2 = 0 => messages[i].by = messages[i - 1].by
    /\ i % 2 = 1 /\ i > 1 => messages[i].by > messages[i - 1].by

Waiting == send.pc \in {"calling", "delay", "timer"}

PairsOfSends ==
  /\ isTyping <=> Waiting
  /\ Alternates(conversation(chatMessages))
  /\ \A n \in 1..send.n :
       /\ Cardinality(PlacesOf("user", n)) <= 1
       /\ Cardinality(PlacesOf("ai", n)) <= Cardinality(PlacesOf("user", n))
       /\ n < send.n => Cardinality(PlacesOf("ai", n)) = Cardinality(PlacesOf("user", n))
  /\ Waiting => Cardinality(PlacesOf("user", send.n)) = 1 /\ PlacesOf("ai", send.n) = {}
  /\ send.pc = "done" =>
       Cardinality(PlacesOf("user", send.n)) = 1 /\ Cardinality(PlacesOf("ai", send.n)) = 1
  /\ send.pc = "returned" => PlacesOf("user", send.n) = {} /\ PlacesOf("ai", send.n) = {}

OnlyAppends ==
  \/ chatMessages' = chatMessages
  \/ \E sender \in {"user", "ai"} :
       /\ Len(chatMessages') = Len(chatMessages) + 1
       /\ SubSeq(chatMessages', 1, Len(chatMessages)) = chatMessages
       /\ chatMessages'[Len(chatMessages')].sender = sender
       /\ sender = "user" => ~isTyping /\ isTyping'
       /\ sender = "ai" /\ chatMessages'[Len(chatMessages')].by # 0 => isTyping /\ ~isTyping'

C27_InitializedAtMostOnce ==
  /\ inits <= 1
  /\ \A c \in Callers :
       /\ ~tracking[c].threw
       /\ tracking[c].pc = "instance" => tracking[c].H = highlightInstance

(***************************************************************************)
(* Properties of the user profiles.                                        *)
(***************************************************************************)
\* C28: after every insert, update or delete on search_experiments or
\* neural_architectures, the totals and the best accuracy of every profile
\* are those of the rows with its user_id, the previous owner of a moved
\* row included
C28_ProfilesAreCorrect ==
  \A u \in Users :
    /\ user_profiles[u].total_experiments = CountOf(owned_experiments, u)
    /\ user_profiles[u].total_architectures = CountOf(owned_architectures, u)
    /\ user_profiles[u].best_accuracy = MaxAccuracyOf(owned_architectures, u)

(***************************************************************************)
(* Properties of the database status card.                                 *)
(***************************************************************************)
\* C29: when testDatabaseOperations has ended, on any path, the experiments
\* table has exactly the rows it had before and testing is false
C29_TestLeavesTheTableAsItWas ==
  test.pc = "done" => search_experiments = test.before /\ ~testing

(***************************************************************************)
(* Properties of the performance timers.                                   *)
(***************************************************************************)
Completed(id) == measured[id].pc \in {"resolved", "rejected", "ended"}

\* C30: the timer map holds exactly the operations started and not yet
\* ended; a measured operation that has resolved or rejected has no entry
\* and one reported duration; so the map is empty once all have completed
C30_TimersHoldTheRunningOperations ==
  /\ DOMAIN operationTimers = {id \in MeasureIds \cup DirectIds : measured[id].pc = "running"}
  /\ \A id \in MeasureIds : Completed(id) => measured[id].reports = 1
  /\ (\A id \in MeasureIds \cup DirectIds : Completed(id)) => DOMAIN operationTimers = {}

====
